---- MODULE Spec2Model ----
(***************************************************************************)
(* Backtester.runBacktest (src/unnamed/part_003) as a state machine.       *)
(*                                                                         *)
(* One run of runBacktest is modelled.  The async function is cut at its   *)
(* awaits: one action per loadHistoricalPrices call (one entry candidate,  *)
(* one open position) plus the loop head, the end of the day and the final *)
(* metrics.  Dates are integers in units of half a day, so that an end     *)
(* date that does not fall on the start date's time of day can be stated.  *)
(* Numbers the code computes by division are exact rationals <<n, d>> with *)
(* d = 0 standing for the IEEE values NaN (<<0,0>>), +Infinity (<<1,0>>)   *)
(* and -Infinity (<<-1,0>>).  Closing prices are positive integers.        *)
(***************************************************************************)
EXTENDS Integers, Sequences, FiniteSets, TLC

(* ------------------------------ bounds --------------------------------- *)
\* Number of whole days between the start date and the end date.
MaxDays == 1
\* Largest number of signals the signal source returns for the window.
MaxSignals == 2
\* Largest number of bars one price response holds.
MaxBars == 2
\* Largest number of raw events in the three input collections together.
MaxEvents == 4
\* Largest number of records the database holds in its three tables together.
MaxRecords == 3
\* Largest number of bars of the benchmark's price response.
MaxSpyBars == 3
\* Largest number of period results given to calculateAggregateStats.
MaxPeriods == 3
\* Largest number of trades in analyzeConvergence's two lists together.
MaxTrades == 3

\* (1000 * 60 * 60 * 24) of the source, in the model's time unit (half days).
MS_PER_DAY == 2

Tickers == {"AAA", "BBB"}
Prices == {79, 100}
Scores == {40, 60}
CapitalChoices == {0, 180}
HoldingChoices == {0, 1}
StopLossChoices == {0, 20}
TakeProfitChoices == {0, 25}
ValidMaxPositions == {1, 2}
InvalidMaxPositions == {-1, 0}

(* --------------------------- JS arithmetic ----------------------------- *)
Max(a, b) == IF a >= b THEN a ELSE b
Min(a, b) == IF a <= b THEN a ELSE b
Abs(a) == IF a < 0 THEN -a ELSE a

RECURSIVE GCD(_, _)
GCD(a, b) == IF b = 0 THEN a ELSE GCD(b, a % b)

NaN == <<0, 0>>
Zero == <<0, 1>>

\* a / b of two integers as JavaScript computes it, as a reduced fraction.
JsDiv(a, b) ==
    IF b = 0
    THEN (IF a = 0 THEN NaN ELSE IF a > 0 THEN <<1, 0>> ELSE <<-1, 0>>)
    ELSE LET g == GCD(Abs(a), Abs(b))
             s == IF b < 0 THEN -1 ELSE 1
         IN  <<(s * a) \div g, (s * b) \div g>>

IsNaN(r) == r = NaN
IsFinite(r) == r[2] > 0

\* a < b, a <= b, a >= b, a > b on JS numbers: FALSE as soon as one is NaN.
RLt(a, b) ==
    IF IsNaN(a) \/ IsNaN(b) THEN FALSE
    ELSE IF IsFinite(a) /\ IsFinite(b) THEN a[1] * b[2] < b[1] * a[2]
    ELSE a # b /\ (a = <<-1, 0>> \/ b = <<1, 0>>)
RLe(a, b) == ~IsNaN(a) /\ ~IsNaN(b) /\ (a = b \/ RLt(a, b))
RGt(a, b) == RLt(b, a)
RGe(a, b) == RLe(b, a)
RInt(k) == <<k, 1>>

\* a + b on finite JS numbers (sums of returnPercent; prices are positive,
\* so every summand is finite).
RAdd(a, b) == JsDiv(a[1] * b[2] + b[1] * a[2], a[2] * b[2])
\* a / k for a finite a and an integer k > 0.
RDivInt(a, k) == JsDiv(a[1], a[2] * k)

\* Math.floor(a / b) for integers, b # 0.
FloorDiv(a, b) == IF b > 0 THEN a \div b ELSE (-a) \div (-b)

\* Array.prototype.slice(0, e) on an array of length len: the number of
\* elements kept (a negative e counts from the end).
JsSliceEnd(len, e) == IF e < 0 THEN Max(len + e, 0) ELSE Min(e, len)

RECURSIVE SeqSum(_)
SeqSum(s) == IF s = <<>> THEN 0 ELSE Head(s) + SeqSum(Tail(s))

\* Mutant of RSeqSum: only the first summand counts.
RSeqSum_FirstOnly(s) == IF s = <<>> THEN Zero ELSE Head(s)

RECURSIVE RSeqSum(_)
RSeqSum(s) == IF s = <<>> THEN Zero ELSE RAdd(Head(s), RSeqSum(Tail(s)))

(* ------------------------------- state --------------------------------- *)
VARIABLES
    config,          \* the BacktestConfig passed to runBacktest
    currentDate,     \* the loop's Date object (its time value)
    capital,         \* cash
    maxCapital,      \* running peak of totalValue
    maxDrawdown,     \* most negative drawdown so far (a JS number)
    maxDrawdownDate, \* <<>> (undefined) or <<date>>
    openPositions,   \* the Map ticker -> position, in insertion order
    trades,          \* BacktestTrade[]
    signalsLeft,     \* signals of the source dated on or after currentDate
    daySignals,      \* qualified signals of the day for tickers not open
    sliceEnd,        \* length of daySignals.slice(0, maxPositions - size)
    i,               \* position of the running for-of loop (1-based)
    pc,              \* "day" | "enter" | "exit" | "done"
    priceCache,      \* Backtester.priceCache
    px,              \* last result of getPriceOnDate: <<>> (null) or <<close>>
    result           \* <<>> until runBacktest returns, then <<BacktestResult>>

backtestVars ==
        <<config, currentDate, capital, maxCapital, maxDrawdown, maxDrawdownDate,
          openPositions, trades, signalsLeft, daySignals, sliceEnd, i, pc,
          priceCache, px, result>>

\* The locals of runBacktest (everything but the Backtester's price cache).
runLocals ==
        <<config, currentDate, capital, maxCapital, maxDrawdown, maxDrawdownDate,
          openPositions, trades, signalsLeft, daySignals, sliceEnd, i, pc,
          px, result>>

\* The state of the other components, each exercised by a specification of
\* its own.
VARIABLES
    insiderTransactions,    \* ConvergenceInput.insiderTransactions
    congressTransactions,   \* ConvergenceInput.congressTransactions
    institutionalHoldings,  \* ConvergenceInput.institutionalHoldings
    detected,               \* <<>> or <<the list detectConvergence returned>>
    stockScore,             \* <<>> or <<the StockScore scoreStock returned>>
    weightCalls,            \* calls of calculateInsiderWeight: input and result
    congressWeightCalls,    \* calls of calculateCongressWeight
    holdingWeightCalls,     \* calls of calculateInstitutionalWeight
    comparison,             \* <<>> or <<the call of compareToSPY>>
    aggregate,              \* <<>> or <<the call of calculateAggregateStats>>
    multiplierCalls,        \* <<>> or <<the call of getExecutiveAlphaMultiplier>>
    analyzed,               \* <<>> or <<the call of analyzeConvergence>>
    market,                 \* the closes the price service answers with
    runs,                   \* the locals of each call of runBacktest made
    fetching,               \* per call: a price request is in flight
    solo,                   \* per call: the same call made alone
    soloCache,              \* per call: the priceCache of the call made alone
    insider_transactions,   \* Database: db.data.insider_transactions
    congress_transactions,  \* Database: db.data.congress_transactions
    institutional_holdings  \* Database: db.data.institutional_holdings

detectVars == <<insiderTransactions, congressTransactions,
                institutionalHoldings, detected, stockScore>>
weightVars == <<weightCalls, congressWeightCalls, holdingWeightCalls>>
storeVars == <<insider_transactions, congress_transactions,
               institutional_holdings>>

statsVars == <<comparison, aggregate>>
decayVars == <<multiplierCalls, analyzed>>
runsVars == <<market, runs, fetching, solo, soloCache>>

vars == <<backtestVars, detectVars, weightVars, storeVars, statsVars, decayVars,
         runsVars>>

\* No input collected and no call made yet; a freshly initialized database.
DetectInit ==
    /\ insiderTransactions = <<>>
    /\ congressTransactions = <<>>
    /\ institutionalHoldings = <<>>
    /\ detected = <<>>
    /\ stockScore = <<>>
WeightInit ==
    /\ weightCalls = <<>>
    /\ congressWeightCalls = <<>>
    /\ holdingWeightCalls = <<>>
StoreInit ==
    /\ insider_transactions = <<>>
    /\ congress_transactions = <<>>
    /\ institutional_holdings = <<>>
StatsInit == comparison = <<>> /\ aggregate = <<>>
DecayInit == multiplierCalls = <<>> /\ analyzed = <<>>
\* No call of runBacktest made side by side with another.
RunsInit ==
    /\ market = <<>> /\ runs = <<>> /\ fetching = <<>>
    /\ solo = <<>> /\ soloCache = <<>>

(* ----------------------------- inputs ---------------------------------- *)
\* End dates of a window that starts at 0: MaxDays days later at the start
\* date's time of day, or half a day after that.
ValidEndDates == {MaxDays * MS_PER_DAY, MaxDays * MS_PER_DAY + 1}
InvalidEndDates == {-MS_PER_DAY}

ConfigSpace(endDates, maxPos) ==
    [startDate : {0}, endDate : endDates, initialCapital : CapitalChoices,
     minConvergenceScore : {50}, maxPositions : maxPos,
     holdingPeriodDays : HoldingChoices, stopLoss : StopLossChoices,
     takeProfit : TakeProfitChoices]

\* Configurations the specification calls valid, and all configurations.
ValidConfigs == ConfigSpace(ValidEndDates, ValidMaxPositions)
AllConfigs == ConfigSpace(ValidEndDates \cup InvalidEndDates,
                          ValidMaxPositions \cup InvalidMaxPositions)

InvalidConfig(c) == c.maxPositions <= 0 \/ c.endDate < c.startDate

\* The signals of the signal source dated on one calendar day, in the order
\* the source returns them: at most n of them.
SignalRecords == [ticker : Tickers, convergenceScore : Scores]
DaySignalLists(n) == UNION {[1..m -> SignalRecords] : m \in 0..n}

\* The bars a price response may hold around a target date: date-ascending.
Bars(target) ==
    [date : {target - MS_PER_DAY, target, target + MS_PER_DAY}, close : Prices]
BarLists(target) ==
    {l \in UNION {[1..n -> Bars(target)] : n \in 0..MaxBars} :
        \A a, b \in 1..Len(l) : a < b => l[a].date < l[b].date}

(* ------------------------- price lookup -------------------------------- *)
\* getPriceOnDate: the first bar dated on or after the target, else the last
\* bar, else null.  <<>> is null, <<bar>> a bar.
getPriceOnDate(prices, targetDate) ==
    LET hits == {k \in 1..Len(prices) : prices[k].date >= targetDate}
    IN  IF hits # {}
        THEN <<prices[CHOOSE k \in hits : \A m \in hits : k <= m]>>
        ELSE IF Len(prices) > 0 THEN <<prices[Len(prices)]>> ELSE <<>>

CloseOf(found) == IF found = <<>> THEN <<>> ELSE <<found[1].close>>

\* loadHistoricalPrices followed by getPriceOnDate(prices, currentDate).
\* A cached key answers from the cache; otherwise the request fails (returns
\* [] and caches nothing) or returns a bar list, which is cached.  Every
\* lookup of a key has the key's start date as its target (the start of every
\* range is currentDate), so the cache keeps what getPriceOnDate finds in the
\* cached list instead of the list.
cacheKey(ticker, start, end) == <<ticker, start, end>>

loadHistoricalPrices(key, target) ==
    IF key \in DOMAIN priceCache
    THEN {[price |-> priceCache[key], cache |-> priceCache]}
    ELSE {[price |-> <<>>, cache |-> priceCache]}
         \cup {[price |-> CloseOf(getPriceOnDate(l, target)),
                cache |-> (key :> CloseOf(getPriceOnDate(l, target))) @@ priceCache]
               : l \in BarLists(target)}

(* ------------------------- position table ------------------------------ *)
OpenTickers == {openPositions[k].ticker : k \in 1..Len(openPositions)}

\* Map.prototype.set: a present key keeps its place and takes the new value.
MapSet(m, pos) ==
    IF \E k \in 1..Len(m) : m[k].ticker = pos.ticker
    THEN [k \in 1..Len(m) |-> IF m[k].ticker = pos.ticker THEN pos ELSE m[k]]
    ELSE Append(m, pos)

\* Map.prototype.delete of the k-th entry.
MapDeleteAt(m, k) == SubSeq(m, 1, k - 1) \o SubSeq(m, k + 1, Len(m))

\* position.entryDate is the loop's own Date object (entryDate: currentDate,
\* which setDate later mutates in place), so reading it yields currentDate.
EntryDate(position) == currentDate

\* Sum of shares * entryPrice over the open positions.
CostBasis(m) == SeqSum([k \in 1..Len(m) |-> m[k].shares * m[k].entryPrice])

(* ------------------------------ entry ---------------------------------- *)
\* Mutant of SliceCount: the slice ignores the positions already open.
SliceCount_IgnoresOpen(n, maxPositions, size) == JsSliceEnd(n, maxPositions)

\* daySignals.slice(0, maxPositions - openPositions.size).length
SliceCount(n, maxPositions, size) == JsSliceEnd(n, maxPositions - size)

\* Stands for the IEEE Infinity of capital / 0.  The divisor
\* maxPositions - openPositions.size is never 0 where the code divides
\* (SlotsNeverZero below), so no reachable state holds this value.
InfiniteShares == 2^20

\* positionSize = capital / (maxPositions - size);
\* shares = Math.floor(positionSize / entryPrice.close)
SharesFor(cap, slots, close) ==
    IF slots = 0 THEN InfiniteShares ELSE FloorDiv(cap, slots * close)

\* Mutant of SharesOk: a position of 0 shares is opened.
SharesOk_AllowsZero(shares) == shares >= 0

\* if (shares > 0)
SharesOk(shares) == shares > 0

\* Mutant of CapitalAfterEntry: the entry does not debit the cash.
CapitalAfterEntry_NoDebit(cap, shares, close) == cap

\* capital -= shares * entryPrice.close
CapitalAfterEntry(cap, shares, close) == cap - shares * close

\* The body of the entry loop for one signal, given what getPriceOnDate found:
\* the position table and the cash after it.
EntryOutcome(signal, entryPrice) ==
    IF entryPrice # <<>> /\ capital > 0
    THEN LET close == entryPrice[1]
             slots == config.maxPositions - Len(openPositions)
             shares == SharesFor(capital, slots, close)
         IN  IF SharesOk(shares)
             THEN [open |-> MapSet(openPositions,
                                   [ticker |-> signal.ticker,
                                    convergenceScore |-> signal.convergenceScore,
                                    entryPrice |-> close,
                                    shares |-> shares,
                                    \* history variable: the day of the entry
                                    enteredOn |-> currentDate]),
                   cap |-> CapitalAfterEntry(capital, shares, close)]
             ELSE [open |-> openPositions, cap |-> capital]
    ELSE [open |-> openPositions, cap |-> capital]

(* ------------------------------- exit ---------------------------------- *)
StopLossHit(returnPercent) ==
    config.stopLoss # 0 /\ RLe(returnPercent, RInt(-config.stopLoss))
TakeProfitHit(returnPercent) ==
    config.takeProfit # 0 /\ RGe(returnPercent, RInt(config.takeProfit))
HoldingPeriodHit(daysSinceEntry) == daysSinceEntry >= config.holdingPeriodDays
EndOfTestHit == currentDate >= config.endDate

\* The four checks, in the order the code makes them: each one that holds
\* sets shouldExit and overwrites exitReason.
ExitDecision(returnPercent, daysSinceEntry) ==
    LET r0 == "holding_period"
        r1 == IF StopLossHit(returnPercent) THEN "stop_loss" ELSE r0
        r2 == IF TakeProfitHit(returnPercent) THEN "take_profit" ELSE r1
        r3 == IF HoldingPeriodHit(daysSinceEntry) THEN "holding_period" ELSE r2
        r4 == IF EndOfTestHit THEN "end_of_test" ELSE r3
    IN  [shouldExit |-> StopLossHit(returnPercent) \/ TakeProfitHit(returnPercent)
                        \/ HoldingPeriodHit(daysSinceEntry) \/ EndOfTestHit,
         exitReason |-> r4]

\* The exit conditions that hold for a position, as the code evaluates them
\* (recorded with each trade as a history variable).
Triggered(returnPercent, daysSinceEntry) ==
    {r \in {"stop_loss", "take_profit", "holding_period", "end_of_test"} :
        \/ r = "stop_loss" /\ StopLossHit(returnPercent)
        \/ r = "take_profit" /\ TakeProfitHit(returnPercent)
        \/ r = "holding_period" /\ HoldingPeriodHit(daysSinceEntry)
        \/ r = "end_of_test" /\ EndOfTestHit}

\* capital += position.shares * currentPrice.close
CapitalAfterExit(cap, shares, close) == cap + shares * close

MakeTrade(position, close, returnPercent, daysSinceEntry, exitReason) ==
    [ticker |-> position.ticker,
     entryPrice |-> position.entryPrice,
     exitPrice |-> close,
     shares |-> position.shares,
     positionValue |-> position.shares * position.entryPrice,
     returnPercent |-> returnPercent,
     returnDollars |-> position.shares * (close - position.entryPrice),
     convergenceScoreAtEntry |-> position.convergenceScore,
     holdingDays |-> daysSinceEntry,
     exitReason |-> exitReason,
     \* history variables: the days of entry and exit, the conditions that held
     enteredOn |-> position.enteredOn,
     exitedOn |-> currentDate,
     triggered |-> Triggered(returnPercent, daysSinceEntry)]

(* --------------------------- final metrics ----------------------------- *)
RECURSIVE bestTrade(_, _, _)
\* trades.reduce((best, t) => t.returnPercent > (best?.returnPercent ||
\* -Infinity) ? t : best, undefined): the index of the result, 0 = undefined.
bestTrade(ts, k, best) ==
    IF k > Len(ts) THEN best
    ELSE LET b == IF best = 0 \/ IsNaN(ts[best].returnPercent)
                     \/ ts[best].returnPercent = Zero
                  THEN <<-1, 0>> ELSE ts[best].returnPercent
         IN  bestTrade(ts, k + 1, IF RGt(ts[k].returnPercent, b) THEN k ELSE best)

RECURSIVE worstTrade(_, _, _)
worstTrade(ts, k, worst) ==
    IF k > Len(ts) THEN worst
    ELSE LET w == IF worst = 0 \/ IsNaN(ts[worst].returnPercent)
                     \/ ts[worst].returnPercent = Zero
                  THEN <<1, 0>> ELSE ts[worst].returnPercent
         IN  worstTrade(ts, k + 1, IF RLt(ts[k].returnPercent, w) THEN k ELSE worst)

\* Mutant of winRate: the quotient is taken for an empty trade list too.
winRate_NoEmptyGuard(wins, n) == JsDiv(wins, n)

\* trades.length > 0 ? winningTrades.length / trades.length : 0
winRate(wins, n) == IF n > 0 THEN JsDiv(wins, n) ELSE Zero

\* Mutant of DrawdownDeepens: !(currentDrawdown >= maxDrawdown), which a NaN
\* drawdown satisfies.
DrawdownDeepens_NotGe(currentDrawdown, deepest) == ~RGe(currentDrawdown, deepest)

\* if (currentDrawdown < maxDrawdown)
DrawdownDeepens(currentDrawdown, deepest) == RLt(currentDrawdown, deepest)

Metrics ==
    LET n == Len(trades)
        win == SelectSeq(trades, LAMBDA t : RGt(t.returnPercent, Zero))
        lose == SelectSeq(trades, LAMBDA t : RLe(t.returnPercent, Zero))
        pct(ts) == [k \in 1..Len(ts) |-> ts[k].returnPercent]
    IN  [trades |-> trades,
         totalReturn |-> JsDiv((capital - config.initialCapital) * 100,
                               config.initialCapital),
         totalReturnDollars |-> capital - config.initialCapital,
         finalCapital |-> capital,
         winRate |-> winRate(Len(win), n),
         avgWin |-> IF Len(win) > 0
                    THEN RDivInt(RSeqSum(pct(win)), Len(win)) ELSE Zero,
         avgLoss |-> IF Len(lose) > 0
                     THEN RDivInt(RSeqSum(pct(lose)), Len(lose)) ELSE Zero,
         maxDrawdown |-> maxDrawdown,
         maxDrawdownDate |-> maxDrawdownDate,
         totalTrades |-> n,
         winningTrades |-> Len(win),
         losingTrades |-> Len(lose),
         avgHoldingPeriod |-> IF n > 0
             THEN JsDiv(SeqSum([k \in 1..n |-> trades[k].holdingDays]), n)
             ELSE Zero,
         bestTrade |-> bestTrade(trades, 1, 0),
         worstTrade |-> worstTrade(trades, 1, 0)]

(* ------------------------------ actions -------------------------------- *)
InitWith(configs) ==
    /\ config \in configs
    /\ currentDate = config.startDate
    /\ capital = config.initialCapital
    /\ maxCapital = config.initialCapital
    /\ maxDrawdown = Zero
    /\ maxDrawdownDate = <<>>
    /\ openPositions = <<>>
    /\ trades = <<>>
    /\ signalsLeft = MaxSignals
    /\ daySignals = <<>>
    /\ sliceEnd = 0
    /\ i = 1
    /\ pc = "day"
    /\ priceCache = [k \in {} |-> <<>>]
    /\ px = <<>>
    /\ result = <<>>
    /\ DetectInit
    /\ WeightInit
    /\ StoreInit
    /\ StatsInit
    /\ DecayInit
    /\ RunsInit

Init == InitWith(ValidConfigs)
InitAnyConfig == InitWith(AllConfigs)

\* while (currentDate <= endDate): the signals of the day are filtered
\* (score, calendar day, ticker not open) and sliced to the free capacity.
\* The signal list is fixed when the run starts; the model draws the signals
\* dated on a day when that day starts, out of the MaxSignals of the list.
StartDay ==
    /\ pc = "day"
    /\ currentDate <= config.endDate
    /\ \E todays \in DaySignalLists(signalsLeft) :
         LET qualified == SelectSeq(todays,
                 LAMBDA s : s.convergenceScore >= config.minConvergenceScore)
             filtered == SelectSeq(qualified,
                 LAMBDA s : s.ticker \notin OpenTickers)
         IN  /\ signalsLeft' = signalsLeft - Len(todays)
             /\ daySignals' = filtered
             /\ sliceEnd' = SliceCount(Len(filtered), config.maxPositions,
                                       Len(openPositions))
    /\ i' = 1
    /\ pc' = "enter"
    /\ UNCHANGED <<config, currentDate, capital, maxCapital, maxDrawdown,
                   maxDrawdownDate, openPositions, trades, priceCache, px, result>>
    /\ UNCHANGED <<detectVars, weightVars, storeVars, statsVars, decayVars, runsVars>>

\* One iteration of the entry loop.
Enter ==
    /\ pc = "enter"
    /\ i <= sliceEnd
    /\ LET signal == daySignals[i]
           key == cacheKey(signal.ticker, currentDate,
                           config.endDate + config.holdingPeriodDays * MS_PER_DAY)
       IN  \E resp \in loadHistoricalPrices(key, currentDate) :
             /\ priceCache' = resp.cache
             /\ px' = resp.price
             /\ openPositions' = EntryOutcome(signal, resp.price).open
             /\ capital' = EntryOutcome(signal, resp.price).cap
    /\ i' = i + 1
    /\ UNCHANGED <<signalsLeft, config, currentDate, maxCapital, maxDrawdown, maxDrawdownDate,
                   trades, daySignals, sliceEnd, pc, result>>
    /\ UNCHANGED <<detectVars, weightVars, storeVars, statsVars, decayVars, runsVars>>

\* The entry loop is over: the exit loop starts on the first position.
BeginExits ==
    /\ pc = "enter"
    /\ i > sliceEnd
    /\ pc' = "exit"
    /\ i' = 1
    /\ UNCHANGED <<signalsLeft, config, currentDate, capital, maxCapital, maxDrawdown,
                   maxDrawdownDate, openPositions, trades, daySignals, sliceEnd,
                   priceCache, px, result>>
    /\ UNCHANGED <<detectVars, weightVars, storeVars, statsVars, decayVars, runsVars>>

\* One iteration of the exit loop.
Exit ==
    /\ pc = "exit"
    /\ i <= Len(openPositions)
    /\ LET position == openPositions[i]
           daysSinceEntry ==
               FloorDiv(currentDate - EntryDate(position), MS_PER_DAY)
           key == cacheKey(position.ticker, EntryDate(position), currentDate)
       IN  \E resp \in loadHistoricalPrices(key, currentDate) :
             /\ priceCache' = resp.cache
             /\ px' = resp.price
             /\ IF resp.price = <<>>
                THEN /\ i' = i + 1
                     /\ UNCHANGED <<openPositions, trades, capital>>
                ELSE LET close == resp.price[1]
                         returnPercent ==
                             JsDiv((close - position.entryPrice) * 100,
                                   position.entryPrice)
                         d == ExitDecision(returnPercent, daysSinceEntry)
                     IN  IF d.shouldExit
                         THEN /\ trades' = Append(trades,
                                     MakeTrade(position, close, returnPercent,
                                               daysSinceEntry, d.exitReason))
                              /\ capital' = CapitalAfterExit(capital,
                                                position.shares, close)
                              /\ openPositions' = MapDeleteAt(openPositions, i)
                              /\ i' = i
                         ELSE /\ i' = i + 1
                              /\ UNCHANGED <<openPositions, trades, capital>>
    /\ UNCHANGED <<signalsLeft, config, currentDate, maxCapital, maxDrawdown, maxDrawdownDate,
                   daySignals, sliceEnd, pc, result>>
    /\ UNCHANGED <<detectVars, weightVars, storeVars, statsVars, decayVars, runsVars>>

\* The exit loop is over: drawdown is tracked and the date moves one day on.
\* Cached prices whose range starts before the new date are dropped: every
\* later lookup is keyed on a start date >= the new currentDate.
EndDay ==
    /\ pc = "exit"
    /\ i > Len(openPositions)
    /\ LET totalValue == capital + CostBasis(openPositions)
           peak == Max(maxCapital, totalValue)
           currentDrawdown == JsDiv((totalValue - peak) * 100, peak)
       IN  /\ maxCapital' = peak
           /\ IF DrawdownDeepens(currentDrawdown, maxDrawdown)
              THEN /\ maxDrawdown' = currentDrawdown
                   /\ maxDrawdownDate' = <<currentDate>>
              ELSE UNCHANGED <<maxDrawdown, maxDrawdownDate>>
    /\ currentDate' = currentDate + MS_PER_DAY
    /\ priceCache' = [k \in {c \in DOMAIN priceCache : c[2] >= currentDate'}
                        |-> priceCache[k]]
    /\ daySignals' = <<>>
    /\ sliceEnd' = 0
    /\ i' = 1
    /\ px' = <<>>
    /\ pc' = "day"
    /\ UNCHANGED <<signalsLeft, config, capital, openPositions, trades, result>>
    /\ UNCHANGED <<detectVars, weightVars, storeVars, statsVars, decayVars, runsVars>>

\* The loop is left: the metrics are computed and the result is returned.
Finish ==
    /\ pc = "day"
    /\ currentDate > config.endDate
    /\ result' = <<Metrics>>
    /\ pc' = "done"
    /\ UNCHANGED <<signalsLeft, config, currentDate, capital, maxCapital, maxDrawdown,
                   maxDrawdownDate, openPositions, trades, daySignals, sliceEnd,
                   i, priceCache, px>>
    /\ UNCHANGED <<detectVars, weightVars, storeVars, statsVars, decayVars, runsVars>>

Next == StartDay \/ Enter \/ BeginExits \/ Exit \/ EndDay \/ Finish

Spec == Init /\ [][Next]_vars
SpecAnyConfig == InitAnyConfig /\ [][Next]_vars

TypeOK ==
    /\ pc \in {"day", "enter", "exit", "done"}
    /\ capital \in Int
    /\ i \in 1..(MaxSignals + Cardinality(Tickers) + 1)
    /\ signalsLeft \in 0..MaxSignals
    /\ Len(openPositions) = Cardinality(OpenTickers)
    /\ (pc = "done") = (result # <<>>)

\* Where the code divides by maxPositions - openPositions.size, it is not 0.
SlotsNeverZero ==
    (pc = "enter" /\ i <= sliceEnd) => config.maxPositions - Len(openPositions) # 0

(* ====================== ConvergenceAnalyzer =========================== *)
(* Strings the code matches by substring are sequences of characters.      *)
UpperOf ==
    "a" :> "A" @@
    "b" :> "B" @@
    "c" :> "C" @@
    "d" :> "D" @@
    "e" :> "E" @@
    "f" :> "F" @@
    "g" :> "G" @@
    "h" :> "H" @@
    "i" :> "I" @@
    "j" :> "J" @@
    "k" :> "K" @@
    "l" :> "L" @@
    "m" :> "M" @@
    "n" :> "N" @@
    "o" :> "O" @@
    "p" :> "P" @@
    "q" :> "Q" @@
    "r" :> "R" @@
    "s" :> "S" @@
    "t" :> "T" @@
    "u" :> "U" @@
    "v" :> "V" @@
    "w" :> "W" @@
    "x" :> "X" @@
    "y" :> "Y" @@
    "z" :> "Z"

\* String.prototype.toUpperCase
toUpperCase(s) ==
    SubSeq([k \in 1..Len(s) |->
               IF s[k] \in DOMAIN UpperOf THEN UpperOf[s[k]] ELSE s[k]],
           1, Len(s))

\* String.prototype.includes
includes(s, t) ==
    \E k \in 1..(Len(s) - Len(t) + 1) : \A j \in 1..Len(t) : s[k + j - 1] = t[j]

\* a * b and Math.min(a, b) on finite JS numbers.
RMul(a, b) == JsDiv(a[1] * b[1], a[2] * b[2])
RMin(a, b) == IF RLt(b, a) THEN b ELSE a

\* Object.entries(INSIDER_WEIGHTS), in the order of the literal.
INSIDER_WEIGHTS ==
    <<[title |-> <<"C", "E", "O">>,
       weight |-> 10],
      [title |-> <<"C", "F", "O">>,
       weight |-> 9],
      [title |-> <<"C", "O", "O">>,
       weight |-> 8],
      [title |-> <<"P", "r", "e", "s", "i", "d", "e", "n", "t">>,
       weight |-> 8],
      [title |-> <<"C", "h", "i", "e", "f", " ", "E", "x", "e", "c", "u", "t", "i", "v", "e", " ", "O", "f", "f", "i", "c", "e", "r">>,
       weight |-> 10],
      [title |-> <<"C", "h", "i", "e", "f", " ", "F", "i", "n", "a", "n", "c", "i", "a", "l", " ", "O", "f", "f", "i", "c", "e", "r">>,
       weight |-> 9],
      [title |-> <<"C", "h", "i", "e", "f", " ", "O", "p", "e", "r", "a", "t", "i", "n", "g", " ", "O", "f", "f", "i", "c", "e", "r">>,
       weight |-> 8],
      [title |-> <<"D", "i", "r", "e", "c", "t", "o", "r">>,
       weight |-> 5],
      [title |-> <<"O", "f", "f", "i", "c", "e", "r">>,
       weight |-> 6],
      [title |-> <<"1", "0", "%", " ", "O", "w", "n", "e", "r">>,
       weight |-> 7],
      [title |-> <<"V", "P">>,
       weight |-> 4],
      [title |-> <<"V", "i", "c", "e", " ", "P", "r", "e", "s", "i", "d", "e", "n", "t">>,
       weight |-> 4],
      [title |-> <<"S", "e", "c", "r", "e", "t", "a", "r", "y">>,
       weight |-> 3],
      [title |-> <<"T", "r", "e", "a", "s", "u", "r", "e", "r">>,
       weight |-> 4],
      [title |-> <<"G", "e", "n", "e", "r", "a", "l">>,
       weight |-> 3]>>

\* TRANSACTION_SIZE_MULTIPLIERS
TRANSACTION_SIZE_MULTIPLIERS ==
    [small |-> RInt(1), medium |-> JsDiv(3, 2), large |-> RInt(2),
     xlarge |-> RInt(3), mega |-> RInt(5)]

\* title.toUpperCase() of every table title.
INSIDER_TITLES_UPPER ==
    [k \in 1..Len(INSIDER_WEIGHTS) |-> toUpperCase(INSIDER_WEIGHTS[k].title)]

RECURSIVE baseWeightFrom(_, _, _)
\* The for-of loop over INSIDER_WEIGHTS: the largest weight among the table
\* titles that the upper-cased insider title includes, and at least the
\* default.
baseWeightFrom(titleUpper, k, baseWeight) ==
    IF k > Len(INSIDER_WEIGHTS) THEN baseWeight
    ELSE baseWeightFrom(titleUpper, k + 1,
             IF includes(titleUpper, INSIDER_TITLES_UPPER[k])
             THEN Max(baseWeight, INSIDER_WEIGHTS[k].weight)
             ELSE baseWeight)

\* transactionType === 'BUY' ? 1.5 : transactionType === 'SELL' ? 0.3 : 1
txMultiplier(transactionType) ==
    IF transactionType = "BUY" THEN JsDiv(3, 2)
    ELSE IF transactionType = "SELL" THEN JsDiv(3, 10) ELSE RInt(1)

\* Mutant of sizeMultiplier: the large tier pays less than the medium tier.
sizeMultiplier_LargeBelowMedium(totalValue) ==
    IF totalValue >= 5000000 THEN TRANSACTION_SIZE_MULTIPLIERS.mega
    ELSE IF totalValue >= 1000000 THEN TRANSACTION_SIZE_MULTIPLIERS.xlarge
    ELSE IF totalValue >= 250000 THEN TRANSACTION_SIZE_MULTIPLIERS.small
    ELSE IF totalValue >= 50000 THEN TRANSACTION_SIZE_MULTIPLIERS.medium
    ELSE TRANSACTION_SIZE_MULTIPLIERS.small

sizeMultiplier(totalValue) ==
    IF totalValue >= 5000000 THEN TRANSACTION_SIZE_MULTIPLIERS.mega
    ELSE IF totalValue >= 1000000 THEN TRANSACTION_SIZE_MULTIPLIERS.xlarge
    ELSE IF totalValue >= 250000 THEN TRANSACTION_SIZE_MULTIPLIERS.large
    ELSE IF totalValue >= 50000 THEN TRANSACTION_SIZE_MULTIPLIERS.medium
    ELSE TRANSACTION_SIZE_MULTIPLIERS.small

calculateInsiderWeight(input) ==
    LET baseWeight == baseWeightFrom(toUpperCase(input.insiderTitle), 1, 3)
        totalValue == input.shares * input.pricePerShare
    IN  RMul(RMul(RInt(baseWeight), txMultiplier(input.transactionType)),
             sizeMultiplier(totalValue))

LowerOf ==
    "A" :> "a" @@
    "B" :> "b" @@
    "C" :> "c" @@
    "D" :> "d" @@
    "E" :> "e" @@
    "F" :> "f" @@
    "G" :> "g" @@
    "H" :> "h" @@
    "I" :> "i" @@
    "J" :> "j" @@
    "K" :> "k" @@
    "L" :> "l" @@
    "M" :> "m" @@
    "N" :> "n" @@
    "O" :> "o" @@
    "P" :> "p" @@
    "Q" :> "q" @@
    "R" :> "r" @@
    "S" :> "s" @@
    "T" :> "t" @@
    "U" :> "u" @@
    "V" :> "v" @@
    "W" :> "w" @@
    "X" :> "x" @@
    "Y" :> "y" @@
    "Z" :> "z"

\* String.prototype.toLowerCase
toLowerCase(s) ==
    SubSeq([k \in 1..Len(s) |->
               IF s[k] \in DOMAIN LowerOf THEN LowerOf[s[k]] ELSE s[k]],
           1, Len(s))

\* Object.entries(CONGRESS_COMMITTEE_WEIGHTS), in the order of the literal.
CONGRESS_COMMITTEE_WEIGHTS ==
    <<[name |-> <<"F", "i", "n", "a", "n", "c", "e">>,
       weight |-> 10],
      [name |-> <<"B", "a", "n", "k", "i", "n", "g">>,
       weight |-> 10],
      [name |-> <<"W", "a", "y", "s", " ", "a", "n", "d", " ", "M", "e", "a", "n", "s">>,
       weight |-> 9],
      [name |-> <<"F", "i", "n", "a", "n", "c", "i", "a", "l", " ", "S", "e", "r", "v", "i", "c", "e", "s">>,
       weight |-> 9],
      [name |-> <<"C", "o", "m", "m", "e", "r", "c", "e">>,
       weight |-> 8],
      [name |-> <<"E", "n", "e", "r", "g", "y">>,
       weight |-> 8],
      [name |-> <<"A", "r", "m", "e", "d", " ", "S", "e", "r", "v", "i", "c", "e", "s">>,
       weight |-> 7],
      [name |-> <<"I", "n", "t", "e", "l", "l", "i", "g", "e", "n", "c", "e">>,
       weight |-> 8],
      [name |-> <<"J", "u", "d", "i", "c", "i", "a", "r", "y">>,
       weight |-> 6],
      [name |-> <<"A", "p", "p", "r", "o", "p", "r", "i", "a", "t", "i", "o", "n", "s">>,
       weight |-> 7]>>

\* name.toLowerCase() of every table name.
COMMITTEE_NAMES_LOWER ==
    [k \in 1..Len(CONGRESS_COMMITTEE_WEIGHTS) |->
        toLowerCase(CONGRESS_COMMITTEE_WEIGHTS[k].name)]

RECURSIVE committeeBonusFrom_LastMatch(_, _, _, _)
\* Mutant of committeeBonusFrom: the last matching table entry wins.
committeeBonusFrom_LastMatch(committees, c, k, committeeBonus) ==
    IF c > Len(committees) THEN committeeBonus
    ELSE IF k > Len(CONGRESS_COMMITTEE_WEIGHTS)
    THEN committeeBonusFrom_LastMatch(committees, c + 1, 1, committeeBonus)
    ELSE committeeBonusFrom_LastMatch(committees, c, k + 1,
             IF includes(toLowerCase(committees[c]), COMMITTEE_NAMES_LOWER[k])
             THEN CONGRESS_COMMITTEE_WEIGHTS[k].weight
             ELSE committeeBonus)

RECURSIVE committeeBonusFrom(_, _, _, _)
\* The nested for-of loops over the committees and the table: the largest
\* weight among the table names that some committee includes (lower-cased).
committeeBonusFrom(committees, c, k, committeeBonus) ==
    IF c > Len(committees) THEN committeeBonus
    ELSE IF k > Len(CONGRESS_COMMITTEE_WEIGHTS)
    THEN committeeBonusFrom(committees, c + 1, 1, committeeBonus)
    ELSE committeeBonusFrom(committees, c, k + 1,
             IF includes(toLowerCase(committees[c]), COMMITTEE_NAMES_LOWER[k])
             THEN Max(committeeBonus, CONGRESS_COMMITTEE_WEIGHTS[k].weight)
             ELSE committeeBonus)

calculateCongressWeight(input) ==
    LET baseWeight == 5
        committeeBonus == committeeBonusFrom(input.committees, 1, 1, 0)
        txMult == IF input.transactionType = "PURCHASE"
                  THEN JsDiv(3, 2) ELSE JsDiv(1, 2)
        avgAmount == JsDiv(input.amountRange.min + input.amountRange.max, 2)
        amountMultiplier ==
            IF RGe(avgAmount, RInt(1000000)) THEN RInt(3)
            ELSE IF RGe(avgAmount, RInt(250000)) THEN RInt(2)
            ELSE IF RGe(avgAmount, RInt(50000)) THEN JsDiv(3, 2)
            ELSE RInt(1)
    IN  RMul(RMul(RInt(baseWeight + committeeBonus), txMult), amountMultiplier)

\* Mutant of calculateInstitutionalWeight: a decrease or an exit is weighted
\* as a new position.
calculateInstitutionalWeight_ExitAsNew(holding) ==
    LET w1 == IF holding.changeType \in {"NEW", "DECREASE", "SOLD_OUT"}
              THEN RInt(10)
              ELSE IF holding.changeType = "INCREASE" THEN JsDiv(15, 2)
              ELSE RInt(5)
        valueMillions == JsDiv(holding.value, 1000000)
        w2 == IF RGe(valueMillions, RInt(1000)) THEN RMul(w1, RInt(3))
              ELSE IF RGe(valueMillions, RInt(100)) THEN RMul(w1, RInt(2))
              ELSE IF RGe(valueMillions, RInt(10)) THEN RMul(w1, JsDiv(3, 2))
              ELSE w1
    IN  IF holding.ownershipPercent # 0 /\ holding.ownershipPercent >= 10
        THEN RMul(w2, JsDiv(3, 2)) ELSE w2

\* holding.changeType and holding.ownershipPercent are optional: "" and 0
\* stand for an absent field (both are falsy in the code's tests).
calculateInstitutionalWeight(holding) ==
    LET w0 == RInt(5)
        w1 == IF holding.changeType = "NEW" THEN RMul(w0, RInt(2))
              ELSE IF holding.changeType = "INCREASE" THEN RMul(w0, JsDiv(3, 2))
              ELSE IF holding.changeType \in {"DECREASE", "SOLD_OUT"}
              THEN RMul(w0, JsDiv(3, 10))
              ELSE w0
        valueMillions == JsDiv(holding.value, 1000000)
        w2 == IF RGe(valueMillions, RInt(1000)) THEN RMul(w1, RInt(3))
              ELSE IF RGe(valueMillions, RInt(100)) THEN RMul(w1, RInt(2))
              ELSE IF RGe(valueMillions, RInt(10)) THEN RMul(w1, JsDiv(3, 2))
              ELSE w1
    IN  IF holding.ownershipPercent # 0 /\ holding.ownershipPercent >= 10
        THEN RMul(w2, JsDiv(3, 2)) ELSE w2

\* Array.prototype.sort((a, b) => b[field] - a[field]): descending by the
\* field (a date or a score) and stable, so elements with equal keys keep
\* their order.
SortedBy(s, field) ==
    LET key(k) == IF field = "date" THEN RInt(s[k].date)
                  ELSE s[k].convergenceScore
        pos(k) == 1 + Cardinality({j \in 1..Len(s) :
                        /\ j # k
                        /\ \/ RGt(key(j), key(k))
                           \/ key(j) = key(k) /\ j < k})
    IN  [p \in 1..Len(s) |-> s[CHOOSE k \in 1..Len(s) : pos(k) = p]]

\* Array.prototype.slice(0, n)
SliceTo(s, n) == SubSeq(s, 1, Min(n, Len(s)))

RECURSIVE FirstSeen(_, _)
\* The keys of tickerActivity in insertion order: the tickers of a list in
\* the order of their first appearance.
FirstSeen(tickers, seen) ==
    IF tickers = <<>> THEN seen
    ELSE FirstSeen(Tail(tickers),
                   IF \E k \in 1..Len(seen) : seen[k] = Head(tickers)
                   THEN seen ELSE Append(seen, Head(tickers)))

TickersOf(events) == [k \in 1..Len(events) |-> events[k].ticker]

getInsiderType(title) ==
    LET titleUpper == toUpperCase(title)
    IN  IF includes(titleUpper, <<"C", "E", "O">>)
           \/ includes(titleUpper, <<"C", "H", "I", "E", "F", " ", "E", "X",
                                     "E", "C", "U", "T", "I", "V", "E">>)
        THEN "CEO"
        ELSE IF includes(titleUpper, <<"C", "F", "O">>)
           \/ includes(titleUpper, <<"C", "H", "I", "E", "F", " ", "F", "I",
                                     "N", "A", "N", "C", "I", "A", "L">>)
        THEN "CFO"
        ELSE IF includes(titleUpper, <<"1", "0", "%">>)
           \/ includes(titleUpper, <<"T", "E", "N", " ", "P", "E", "R", "C",
                                     "E", "N", "T">>)
        THEN "10%+ Owner"
        ELSE IF includes(titleUpper, <<"D", "I", "R", "E", "C", "T", "O", "R">>)
        THEN "Director"
        ELSE "Officer"

\* Mutant of convergenceBonus: three active categories earn the bonus of two.
convergenceBonus_NoTriple(activeCategories) ==
    IF activeCategories >= 2 THEN 15 ELSE 0

convergenceBonus(activeCategories) ==
    IF activeCategories >= 3 THEN 30
    ELSE IF activeCategories >= 2 THEN 15 ELSE 0

\* Mutant of normalized: the category score is doubled but not clamped.
normalized_NoClamp(score) == RMul(score, RInt(2))

\* Math.min(100, score * 2)
normalized(score) == RMin(RInt(100), RMul(score, RInt(2)))

\* Mutant of aboveNoiseFloor: every ticker with activity is emitted.
aboveNoiseFloor_Always(convergenceScore) == TRUE

\* if (convergenceScore > 10)
aboveNoiseFloor(convergenceScore) == RGt(convergenceScore, RInt(10))

\* The body of the loop over Object.entries(tickerActivity) for one ticker:
\* the signal the code builds.
tickerSignal(ticker, input) ==
    LET insider == SelectSeq(input.insiderTransactions,
                             LAMBDA t : t.ticker = ticker)
        congress == SelectSeq(input.congressTransactions,
                              LAMBDA t : t.ticker = ticker)
        institutional == SelectSeq(input.institutionalHoldings,
                                   LAMBDA h : h.ticker = ticker)
        insiderBuys == SelectSeq(insider, LAMBDA t : t.transactionType = "BUY")
        congressBuys == SelectSeq(congress,
                                  LAMBDA t : t.transactionType = "PURCHASE")
        institutionalIncreases ==
            SelectSeq(institutional,
                      LAMBDA h : h.changeType = "INCREASE" \/ h.changeType = "NEW")
        insiderScore ==
            RSeqSum([k \in 1..Len(insiderBuys) |->
                        calculateInsiderWeight(insiderBuys[k])])
        congressScore ==
            RSeqSum([k \in 1..Len(congressBuys) |->
                        calculateCongressWeight(congressBuys[k])])
        institutionalScore ==
            RSeqSum([k \in 1..Len(institutionalIncreases) |->
                        calculateInstitutionalWeight(institutionalIncreases[k])])
        activeCategories ==
            Cardinality({c \in {"insider", "congress", "institutional"} :
                \/ c = "insider" /\ Len(insiderBuys) > 0
                \/ c = "congress" /\ Len(congressBuys) > 0
                \/ c = "institutional" /\ Len(institutionalIncreases) > 0})
        bonus == convergenceBonus(activeCategories)
        normalizedInsider == normalized(insiderScore)
        normalizedCongress == normalized(congressScore)
        normalizedInstitutional == normalized(institutionalScore)
        weighted ==
            RAdd(RAdd(RAdd(RMul(normalizedInsider, JsDiv(35, 100)),
                           RMul(normalizedCongress, JsDiv(3, 10))),
                      RMul(normalizedInstitutional, JsDiv(1, 4))),
                 RInt(bonus))
        convergenceScore ==
            RMin(RInt(100),
                 RMul(weighted,
                      IF activeCategories >= 2 THEN JsDiv(12, 10) ELSE RInt(1)))
        fromInsider ==
            [k \in 1..Len(SliceTo(insiderBuys, 5)) |->
                [name |-> insiderBuys[k].insiderName,
                 type |-> getInsiderType(insiderBuys[k].insiderTitle),
                 date |-> insiderBuys[k].transactionDate,
                 amount |-> insiderBuys[k].shares * insiderBuys[k].pricePerShare]]
        fromCongress ==
            [k \in 1..Len(SliceTo(congressBuys, 3)) |->
                [name |-> congressBuys[k].memberName,
                 type |-> "Congress",
                 date |-> congressBuys[k].transactionDate,
                 amount |-> congressBuys[k].amountRange]]
        fromInstitutional ==
            [k \in 1..Len(SliceTo(institutionalIncreases, 3)) |->
                [name |-> institutionalIncreases[k].institutionName,
                 type |-> "Institution",
                 date |-> institutionalIncreases[k].filingDate,
                 amount |-> institutionalIncreases[k].value]]
        recentBuyers == fromInsider \o fromCongress \o fromInstitutional
    IN  [ticker |-> ticker,
         convergenceScore |-> convergenceScore,
         insiderScore |-> normalizedInsider,
         congressScore |-> normalizedCongress,
         institutionalScore |-> normalizedInstitutional,
         convergenceBonus |-> bonus,
         signals |-> [insiderBuys |-> Len(insiderBuys),
                      congressBuys |-> Len(congressBuys),
                      institutionalIncreases |-> Len(institutionalIncreases)],
         recentBuyers |-> SortedBy(recentBuyers, "date")]

\* detectConvergence: the signals of the tickers of tickerActivity in
\* insertion order, those above the noise floor pushed, then sorted by
\* convergenceScore descending.
detectConvergence(input) ==
    LET tickers == FirstSeen(TickersOf(input.insiderTransactions)
                             \o TickersOf(input.congressTransactions)
                             \o TickersOf(input.institutionalHoldings), <<>>)
        built == [k \in 1..Len(tickers) |-> tickerSignal(tickers[k], input)]
        signals == SelectSeq(built,
                             LAMBDA g : aboveNoiseFloor(g.convergenceScore))
    IN  SortedBy(signals, "convergenceScore")

\* Database.getAllActivityForTicker: the events of one ticker dated on or
\* after the cut-off, each collection in stored order.
getAllActivityForTicker(ticker, cutoffDate, input) ==
    [insiderTransactions |->
        SelectSeq(input.insiderTransactions,
                  LAMBDA t : t.ticker = ticker /\ t.transactionDate >= cutoffDate),
     congressTransactions |->
        SelectSeq(input.congressTransactions,
                  LAMBDA t : t.ticker = ticker /\ t.transactionDate >= cutoffDate),
     institutionalHoldings |->
        SelectSeq(input.institutionalHoldings,
                  LAMBDA h : h.ticker = ticker /\ h.filingDate >= cutoffDate)]

\* The StockScore returned without a database or without a signal.
DefaultScore(ticker) ==
    [ticker |-> ticker, overallScore |-> Zero, insiderScore |-> Zero,
     congressScore |-> Zero, institutionalScore |-> Zero,
     convergenceBonus |-> 0, recentBuyers |-> <<>>,
     signals |-> [insiderBuys |-> 0, congressBuys |-> 0,
                  institutionalIncreases |-> 0]]

\* The StockScore built from the signals found for the ticker: the first
\* of them, or the default when there is none.
StockScoreOf(ticker, signal) ==
    IF signal = <<>> THEN DefaultScore(ticker)
    ELSE [ticker |-> ticker,
          overallScore |-> signal[1].convergenceScore,
          insiderScore |-> signal[1].insiderScore,
          congressScore |-> signal[1].congressScore,
          institutionalScore |-> signal[1].institutionalScore,
          convergenceBonus |-> signal[1].convergenceBonus,
          recentBuyers |-> signal[1].recentBuyers,
          signals |-> signal[1].signals]

scoreStock(ticker, cutoffDate, hasDb, stored) ==
    IF ~hasDb THEN DefaultScore(ticker)
    ELSE StockScoreOf(ticker,
             SelectSeq(detectConvergence(
                           getAllActivityForTicker(ticker, cutoffDate, stored)),
                       LAMBDA g : g.ticker = ticker))

(* ---------------- inputs of the convergence detector -------------------- *)
DetectTickers == {"AAA", "BBB"}

TitleCEO == <<"C", "E", "O">>
TitleDirector == <<"D", "i", "r", "e", "c", "t", "o", "r">>
CommitteeFinance == <<"F", "i", "n", "a", "n", "c", "e">>

\* Insider events: a CEO buying or selling $5M, a director buying $10K.
InsiderEvents ==
    {[ticker |-> "AAA", insiderName |-> "Ann", insiderTitle |-> TitleCEO,
      transactionType |-> "BUY", shares |-> 50000, pricePerShare |-> 100,
      transactionDate |-> 1],
     [ticker |-> "AAA", insiderName |-> "Ann", insiderTitle |-> TitleCEO,
      transactionType |-> "SELL", shares |-> 50000, pricePerShare |-> 100,
      transactionDate |-> 1],
     [ticker |-> "AAA", insiderName |-> "Bob", insiderTitle |-> TitleDirector,
      transactionType |-> "BUY", shares |-> 100, pricePerShare |-> 100,
      transactionDate |-> 2],
     [ticker |-> "BBB", insiderName |-> "Bob", insiderTitle |-> TitleDirector,
      transactionType |-> "BUY", shares |-> 100, pricePerShare |-> 100,
      transactionDate |-> 2]}

\* Legislator events: purchases of $100K-$250K and, by a Finance committee
\* member, of $1M-$5M; a sale.
CongressEvents ==
    {[ticker |-> "AAA", memberName |-> "Cy", committees |-> <<>>,
      transactionType |-> "PURCHASE",
      amountRange |-> [min |-> 100001, max |-> 250000], transactionDate |-> 1],
     [ticker |-> "AAA", memberName |-> "Di",
      committees |-> <<CommitteeFinance>>, transactionType |-> "PURCHASE",
      amountRange |-> [min |-> 1000001, max |-> 5000000], transactionDate |-> 3],
     [ticker |-> "AAA", memberName |-> "Cy", committees |-> <<>>,
      transactionType |-> "SALE",
      amountRange |-> [min |-> 100001, max |-> 250000], transactionDate |-> 1]}

\* Institutional events: an increase of $50M, a new position of $100M, a
\* decrease by a 12% owner.
HoldingEvents ==
    {[ticker |-> "AAA", institutionName |-> "Fund", changeType |-> "INCREASE",
      value |-> 50000000, ownershipPercent |-> 0, filingDate |-> 2],
     [ticker |-> "AAA", institutionName |-> "Trust", changeType |-> "DECREASE",
      value |-> 50000000, ownershipPercent |-> 12, filingDate |-> 2],
     [ticker |-> "AAA", institutionName |-> "Trust", changeType |-> "NEW",
      value |-> 100000000, ownershipPercent |-> 0, filingDate |-> 3]}

\* Cut-off dates of scoreStock's lookback window.
CutoffDates == {0, 2}

ConvergenceInput ==
    [insiderTransactions |-> insiderTransactions,
     congressTransactions |-> congressTransactions,
     institutionalHoldings |-> institutionalHoldings]

EventCount == Len(insiderTransactions) + Len(congressTransactions)
              + Len(institutionalHoldings)

(* ----------------- actions of the convergence detector ------------------ *)
\* A configuration for the specifications that do not run the backtester.
IdleConfig == CHOOSE c \in ValidConfigs : TRUE

\* The initial state of the specifications of the other components: nothing
\* collected, no call made, a freshly initialized database.
InitComponents == InitWith({IdleConfig})

\* The collaborators hand over one more raw event, in any order.
AddInsider ==
    /\ detected = <<>> /\ stockScore = <<>>
    /\ EventCount < MaxEvents
    /\ \E tx \in InsiderEvents :
         insiderTransactions' = Append(insiderTransactions, tx)
    /\ UNCHANGED <<congressTransactions, institutionalHoldings, detected,
                   stockScore, backtestVars, weightVars, storeVars, statsVars, decayVars, runsVars>>

AddCongress ==
    /\ detected = <<>> /\ stockScore = <<>>
    /\ EventCount < MaxEvents
    /\ \E tx \in CongressEvents :
         congressTransactions' = Append(congressTransactions, tx)
    /\ UNCHANGED <<insiderTransactions, institutionalHoldings, detected,
                   stockScore, backtestVars, weightVars, storeVars, statsVars, decayVars, runsVars>>

AddHolding ==
    /\ detected = <<>> /\ stockScore = <<>>
    /\ EventCount < MaxEvents
    /\ \E h \in HoldingEvents :
         institutionalHoldings' = Append(institutionalHoldings, h)
    /\ UNCHANGED <<insiderTransactions, congressTransactions, detected,
                   stockScore, backtestVars, weightVars, storeVars, statsVars, decayVars, runsVars>>

\* detectConvergence is called on the collected input.
Detect ==
    /\ detected = <<>> /\ stockScore = <<>>
    /\ detected' = <<detectConvergence(ConvergenceInput)>>
    /\ UNCHANGED <<insiderTransactions, congressTransactions,
                   institutionalHoldings, stockScore, backtestVars, weightVars,
                   storeVars, statsVars, decayVars, runsVars>>

\* scoreStock is called for a ticker, with or without a database holding the
\* collected events.
ScoreStock ==
    /\ detected = <<>> /\ stockScore = <<>>
    /\ \E ticker \in DetectTickers :
         \E call \in {<<FALSE, 0>>} \cup {<<TRUE, d>> : d \in CutoffDates} :
            stockScore' = <<scoreStock(ticker, call[2], call[1],
                                       ConvergenceInput)>>
    /\ UNCHANGED <<insiderTransactions, congressTransactions,
                   institutionalHoldings, detected, backtestVars, weightVars,
                   storeVars, statsVars, decayVars, runsVars>>

NextDetect == AddInsider \/ AddCongress \/ AddHolding \/ Detect \/ ScoreStock

SpecDetect == InitComponents /\ [][NextDetect]_vars

(* ------------------ calls of calculateInsiderWeight --------------------- *)
\* Titles of the calls: every title of the table, a title outside it and a
\* lower-case one.
WeightTitles ==
    {INSIDER_WEIGHTS[k].title : k \in 1..Len(INSIDER_WEIGHTS)}
    \cup {<<"C", "h", "a", "i", "r", "m", "a", "n">>, <<"c", "e", "o">>}

WeightKinds == {"BUY", "SELL", "GIFT"}

\* Share counts and prices whose products lie below, on and above each
\* breakpoint of the size tiers ($50K, $250K, $1M, $5M).
WeightShares == {499, 500, 2499, 2500, 9999, 10000, 49999, 50000, 249999, 250000}
WeightPrices == {20, 100}

InsiderWeightInput ==
    [insiderTitle : WeightTitles, transactionType : WeightKinds,
     shares : WeightShares, pricePerShare : WeightPrices]

\* Each behaviour makes one call of one of the three weight functions.
\* calculateInsiderWeight is called on one input.
Weigh ==
    /\ WeightInit
    /\ \E input \in InsiderWeightInput :
         weightCalls' = <<[input |-> input,
                           weight |-> calculateInsiderWeight(input)]>>
    /\ UNCHANGED <<backtestVars, detectVars, storeVars, statsVars, decayVars, runsVars,
                   congressWeightCalls,
                   holdingWeightCalls>>

\* Committees of a member: two names of the table, one that contains a table
\* name in another case, and one outside the table.
WeightCommittees ==
    {CommitteeFinance,
     <<"J", "u", "d", "i", "c", "i", "a", "r", "y">>,
     <<"H", "o", "u", "s", "e", " ", "E", "N", "E", "R", "G", "Y">>,
     <<"A", "g", "r", "i", "c", "u", "l", "t", "u", "r", "e">>}

\* Amount ranges whose averages lie below, on and above each breakpoint
\* ($50K, $250K, $1M).
WeightAmountRanges ==
    {[min |-> 1001, max |-> 15000], [min |-> 49999, max |-> 50001],
     [min |-> 50001, max |-> 100000], [min |-> 249999, max |-> 250000],
     [min |-> 250000, max |-> 250000], [min |-> 500001, max |-> 1000000],
     [min |-> 1000000, max |-> 1000000], [min |-> 1000001, max |-> 5000000]}

\* committees is absent (defaulted to []), or holds one or two committees.
CongressWeightInput ==
    [committees : {<<>>} \cup {<<a>> : a \in WeightCommittees}
                  \cup {<<a, b>> : a, b \in WeightCommittees},
     transactionType : {"PURCHASE", "SALE"},
     amountRange : WeightAmountRanges]

\* calculateCongressWeight is called on one input.
WeighCongress ==
    /\ WeightInit
    /\ \E input \in CongressWeightInput :
         congressWeightCalls' = <<[input |-> input,
                                   weight |-> calculateCongressWeight(input)]>>
    /\ UNCHANGED <<backtestVars, detectVars, storeVars, statsVars, decayVars, runsVars,
                   weightCalls,
                   holdingWeightCalls>>

\* Values in thousands below, on and above each breakpoint (10, 100 and 1000
\* millions), a zero and a negative one; ownership percentages around 10,
\* 0 for an absent one; changeType "" for an absent one.
InstitutionalWeightInput ==
    [changeType : {"NEW", "INCREASE", "DECREASE", "SOLD_OUT", ""},
     value : {-1000000, 0, 9999999, 10000000, 99999999, 100000000, 999999999,
              1000000000},
     ownershipPercent : {0, 9, 10, 12}]

\* calculateInstitutionalWeight is called on one holding.
WeighHolding ==
    /\ WeightInit
    /\ \E holding \in InstitutionalWeightInput :
         holdingWeightCalls' =
            <<[input |-> holding,
               weight |-> calculateInstitutionalWeight(holding)]>>
    /\ UNCHANGED <<backtestVars, detectVars, storeVars, statsVars, decayVars, runsVars,
                   weightCalls,
                   congressWeightCalls>>

NextWeight == Weigh \/ WeighCongress \/ WeighHolding

SpecWeight == InitComponents /\ [][NextWeight]_vars

(* ============================= Database ================================ *)
(* The file-backed database (the constructor's default path).  A date is a *)
(* Date object or, once the JSON file was read back, its ISO string; text  *)
(* is a sequence of pieces so that a "-" inside a ticker or a name can be  *)
(* told from the "-" the key puts between its parts.                       *)
\* Milliseconds of a second, in the model's unit of time.
TICKS_PER_SECOND == 2

DateObject(t) == [kind |-> "Date", time |-> t]

\* `${date}`: Date.prototype.toString drops the milliseconds; a string is
\* itself (JSON.stringify wrote the date with its milliseconds).
DateText(date) ==
    IF date.kind = "Date"
    THEN <<"toString", date.time \div TICKS_PER_SECOND>>
    ELSE <<"toISOString", date.time>>

\* JSON.parse(JSON.stringify(date)): the ISO string of the same instant.
JsonDate(date) == [kind |-> "string", time |-> date.time]

getTransactionKey(tx) ==
    tx.ticker \o <<"-">> \o tx.insiderName \o <<"-">>
    \o <<DateText(tx.transactionDate)>> \o <<"-">> \o <<tx.shares>>

getCongressKey(tx) ==
    tx.ticker \o <<"-">> \o tx.memberName \o <<"-">>
    \o <<DateText(tx.transactionDate)>> \o <<"-">> \o <<tx.amountRange.min>>

getHoldingKey(h) ==
    h.ticker \o <<"-">> \o h.institutionCIK \o <<"-">> \o <<DateText(h.reportDate)>>

RecordCount == Len(insider_transactions) + Len(congress_transactions)
               + Len(institutional_holdings)

\* Events handed to the save calls: dates are Date objects.
StoreDates == {DateObject(0), DateObject(1), DateObject(TICKS_PER_SECOND)}
StoreTickers == {<<"BRK">>, <<"BRK", "-", "B">>}
StoreInsiderEvents ==
    [ticker : StoreTickers, insiderName : {<<"Ann">>, <<"B", "-", "Ann">>},
     transactionDate : StoreDates, shares : {100}]
StoreCongressEvents ==
    [ticker : {<<"BRK">>}, memberName : {<<"Cy">>},
     transactionDate : {DateObject(0)},
     amountRange : {[min |-> 1001, max |-> 15000],
                    [min |-> 15001, max |-> 50000]}]
StoreHoldingEvents ==
    [ticker : {<<"BRK">>}, institutionCIK : {<<"0001067983">>},
     reportDate : {DateObject(0), DateObject(TICKS_PER_SECOND)}]

\* The save calls: a record is pushed unless a stored record has the same key
\* (the id the stored copy gets plays no part in any key).
saveInsiderTransaction ==
    /\ \E transaction \in StoreInsiderEvents :
         IF ~\E k \in 1..Len(insider_transactions) :
                getTransactionKey(insider_transactions[k]) = getTransactionKey(transaction)
         THEN /\ RecordCount < MaxRecords
              /\ insider_transactions' = Append(insider_transactions, transaction)
         ELSE UNCHANGED insider_transactions
    /\ UNCHANGED <<congress_transactions, institutional_holdings,
                   backtestVars, detectVars, weightVars, statsVars, decayVars, runsVars>>

saveCongressTransaction ==
    /\ \E transaction \in StoreCongressEvents :
         IF ~\E k \in 1..Len(congress_transactions) :
                getCongressKey(congress_transactions[k]) = getCongressKey(transaction)
         THEN /\ RecordCount < MaxRecords
              /\ congress_transactions' = Append(congress_transactions, transaction)
         ELSE UNCHANGED congress_transactions
    /\ UNCHANGED <<insider_transactions, institutional_holdings,
                   backtestVars, detectVars, weightVars, statsVars, decayVars, runsVars>>

saveInstitutionalHolding ==
    /\ \E holding \in StoreHoldingEvents :
         IF ~\E k \in 1..Len(institutional_holdings) :
                getHoldingKey(institutional_holdings[k]) = getHoldingKey(holding)
         THEN /\ RecordCount < MaxRecords
              /\ institutional_holdings' = Append(institutional_holdings, holding)
         ELSE UNCHANGED institutional_holdings
    /\ UNCHANGED <<insider_transactions, congress_transactions,
                   backtestVars, detectVars, weightVars, statsVars, decayVars, runsVars>>

\* close() and initialize() of the file-backed database: the tables are read
\* back from the JSON file, where every date is a string.
Reopen ==
    /\ insider_transactions' =
         [k \in 1..Len(insider_transactions) |->
            [insider_transactions[k] EXCEPT !.transactionDate = JsonDate(@)]]
    /\ congress_transactions' =
         [k \in 1..Len(congress_transactions) |->
            [congress_transactions[k] EXCEPT !.transactionDate = JsonDate(@)]]
    /\ institutional_holdings' =
         [k \in 1..Len(institutional_holdings) |->
            [institutional_holdings[k] EXCEPT !.reportDate = JsonDate(@)]]
    /\ UNCHANGED <<backtestVars, detectVars, weightVars, statsVars, decayVars, runsVars>>

NextStore == saveInsiderTransaction \/ saveCongressTransaction
             \/ saveInstitutionalHolding \/ Reopen

SpecStore == InitComponents /\ [][NextStore]_vars

(* =============== Backtester: benchmark and aggregate stats ============== *)
\* a - b and a / b on JS numbers.
RSub(a, b) == RAdd(a, RMul(b, RInt(-1)))
RDiv(a, b) == JsDiv(a[1] * b[2], a[2] * b[1])

\* Mutant of spyEndPrice: the second bar's close.
spyEndPrice_SecondBar(spyPrices) == spyPrices[2]

\* spyPrices[spyPrices.length - 1].close
spyEndPrice(spyPrices) == spyPrices[Len(spyPrices)]

\* compareToSPY(result), given the list loadHistoricalPrices('SPY', period)
\* returns (the closes of its bars); the list is not loaded without a period.
\* res is the code's result.
compareToSPY(res, spyPrices) ==
    IF ~res.hasPeriod \/ Len(spyPrices) < 2
    THEN [strategyReturn |-> res.totalReturn,
          spyReturn |-> Zero,
          alpha |-> res.totalReturn,
          outperformed |-> TRUE,
          strategyFinalValue |-> res.finalCapital,
          spyFinalValue |-> RInt(res.initialCapital)]
    ELSE LET spyStartPrice == spyPrices[1]
             spyReturn == RMul(JsDiv(spyEndPrice(spyPrices) - spyStartPrice,
                                     spyStartPrice),
                               RInt(100))
         IN  [strategyReturn |-> res.totalReturn,
              spyReturn |-> spyReturn,
              alpha |-> RSub(res.totalReturn, spyReturn),
              outperformed |-> RGt(res.totalReturn, spyReturn),
              strategyFinalValue |-> res.finalCapital,
              spyFinalValue |->
                 RMul(RInt(res.initialCapital),
                      RAdd(RInt(1), RDiv(spyReturn, RInt(100))))]

\* results.map((r) => r.totalReturn).sort((a, b) => a - b): ascending.
sortedReturns(results) ==
    LET pos(k) == 1 + Cardinality({j \in 1..Len(results) :
                        \/ RLt(results[j].totalReturn, results[k].totalReturn)
                        \/ results[j].totalReturn = results[k].totalReturn /\ j < k})
    IN  [p \in 1..Len(results) |->
            results[CHOOSE k \in 1..Len(results) : pos(k) = p].totalReturn]

\* The median of the sorted returns, 0 for none.
medianReturn(returns) ==
    IF Len(returns) = 0 THEN Zero
    ELSE IF Len(returns) % 2 = 0
    THEN RDivInt(RAdd(returns[Len(returns) \div 2],
                      returns[Len(returns) \div 2 + 1]), 2)
    ELSE returns[Len(returns) \div 2 + 1]

RECURSIVE bestPeriodResult(_, _, _)
\* results.reduce((best, r) => r.totalReturn > (best?.totalReturn ||
\* -Infinity) ? r : best, undefined): the index of the result, 0 = undefined.
bestPeriodResult(results, k, best) ==
    IF k > Len(results) THEN best
    ELSE LET b == IF best = 0 \/ IsNaN(results[best].totalReturn)
                     \/ results[best].totalReturn = Zero
                  THEN <<-1, 0>> ELSE results[best].totalReturn
         IN  bestPeriodResult(results, k + 1,
                 IF RGt(results[k].totalReturn, b) THEN k ELSE best)

RECURSIVE worstPeriodResult(_, _, _)
\* The same reduce with < and Infinity.
worstPeriodResult(results, k, worst) ==
    IF k > Len(results) THEN worst
    ELSE LET w == IF worst = 0 \/ IsNaN(results[worst].totalReturn)
                     \/ results[worst].totalReturn = Zero
                  THEN <<1, 0>> ELSE results[worst].totalReturn
         IN  worstPeriodResult(results, k + 1,
                 IF RLt(results[k].totalReturn, w) THEN k ELSE worst)

\* bestPeriod / worstPeriod of the returned stats: the chosen result's period
\* (its index in the list) and return, or return 0 when none was chosen.
periodOf(results, chosen) ==
    IF chosen # 0 THEN [period |-> chosen, return |-> results[chosen].totalReturn]
    ELSE [period |-> 0, return |-> Zero]

\* calculateAggregateStats(results); each result carries the benchmark prices
\* compareToSPY loads for its period.
calculateAggregateStats(results) ==
    LET n == Len(results)
        totalTrades == SeqSum([k \in 1..n |-> results[k].totalTrades])
        totalWins == SeqSum([k \in 1..n |-> results[k].winningTrades])
        positiveReturns ==
            Cardinality({k \in 1..n : RGt(results[k].totalReturn, Zero)})
        totalAlpha ==
            RSeqSum([k \in 1..n |->
                        compareToSPY(results[k], results[k].spyPrices).alpha])
    IN  [averageReturn |->
            IF n > 0
            THEN RDivInt(RSeqSum([k \in 1..n |-> results[k].totalReturn]), n)
            ELSE Zero,
         medianReturn |-> medianReturn(sortedReturns(results)),
         totalTrades |-> totalTrades,
         overallWinRate |->
            IF totalTrades > 0 THEN JsDiv(totalWins, totalTrades) ELSE Zero,
         bestPeriod |-> periodOf(results, bestPeriodResult(results, 1, 0)),
         worstPeriod |-> periodOf(results, worstPeriodResult(results, 1, 0)),
         consistencyScore |-> IF n > 0 THEN JsDiv(positiveReturns, n) ELSE Zero,
         averageAlpha |-> IF n > 0 THEN RDivInt(totalAlpha, n) ELSE Zero]

(* ------------------- inputs and calls of the two functions -------------- *)
\* Total returns in percent: a loss, a flat period and two gains.
StatReturns == {RInt(-10), Zero, RInt(5), RInt(20)}

\* Closes of the benchmark's bars, date-ascending; 0 is a zero or null close.
SpyPriceLists == UNION {[1..n -> {0, 50, 100, 200}] : n \in 0..MaxSpyBars}

\* The fields of a BacktestResult the two functions read.  Capital of 100
\* makes finalCapital 100 + totalReturn.
BacktestResults ==
    {[totalReturn |-> r, finalCapital |-> RAdd(RInt(100), r),
      initialCapital |-> 100, hasPeriod |-> p,
      totalTrades |-> IF r = Zero THEN 0 ELSE 2,
      winningTrades |-> IF RGt(r, Zero) THEN 1 ELSE 0,
      spyPrices |-> l]
       : r \in StatReturns, p \in BOOLEAN, l \in {<<>>, <<100, 150>>}}

\* Each behaviour makes one call of one of the two functions.
CompareToSPY ==
    /\ StatsInit
    /\ \E res \in BacktestResults :
         /\ res.spyPrices = <<>>
         /\ \E spyPrices \in IF res.hasPeriod THEN SpyPriceLists ELSE {<<>>} :
              comparison' = <<[result |-> res, spyPrices |-> spyPrices,
                               returned |-> compareToSPY(res, spyPrices)]>>
    /\ UNCHANGED <<aggregate, backtestVars, detectVars, weightVars, storeVars,
                   decayVars, runsVars>>

\* The period results of runMultiplePeriods all carry their period.
AggregateStats ==
    /\ StatsInit
    /\ \E results \in UNION {[1..n -> {r \in BacktestResults : r.hasPeriod}]
                                : n \in 0..MaxPeriods} :
         aggregate' = <<[results |-> results,
                         returned |-> calculateAggregateStats(results)]>>
    /\ UNCHANGED <<comparison, backtestVars, detectVars, weightVars, storeVars,
                   decayVars, runsVars>>

NextStats == CompareToSPY \/ AggregateStats

SpecStats == InitComponents /\ [][NextStats]_vars

(* ================= time-decay scoring (analyzeConvergence) ============== *)
getInsiderTimeDecayWeight(daysOld) ==
    IF daysOld <= 5 THEN RInt(1)
    ELSE IF daysOld <= 14 THEN JsDiv(85, 100)
    ELSE IF daysOld <= 30 THEN JsDiv(65, 100)
    ELSE IF daysOld <= 60 THEN JsDiv(45, 100)
    ELSE IF daysOld <= 90 THEN JsDiv(30, 100)
    ELSE IF daysOld <= 180 THEN JsDiv(15, 100)
    ELSE JsDiv(5, 100)

\* The first part of getExecutiveAlphaMultiplier: the executive type of the
\* upper-cased title and its base multiplier.
executiveType(titleUpper) ==
    IF includes(titleUpper, <<"C", "F", "O">>)
       \/ includes(titleUpper, <<"C", "H", "I", "E", "F", " ", "F", "I", "N", "A", "N", "C", "I", "A", "L">>)
    THEN [isCFO |-> TRUE, isCEO |-> FALSE, baseMultiplier |-> RInt(1)]
    ELSE IF includes(titleUpper, <<"C", "E", "O">>)
       \/ includes(titleUpper, <<"C", "H", "I", "E", "F", " ", "E", "X", "E", "C", "U", "T", "I", "V", "E">>)
    THEN [isCFO |-> FALSE, isCEO |-> TRUE, baseMultiplier |-> RInt(1)]
    ELSE [isCFO |-> FALSE, isCEO |-> FALSE,
          baseMultiplier |->
            IF includes(titleUpper, <<"C", "O", "O">>)
               \/ includes(titleUpper, <<"P", "R", "E", "S", "I", "D", "E", "N", "T">>)
               \/ includes(titleUpper, <<"C", "H", "I", "E", "F", " ", "O", "P", "E", "R", "A", "T", "I", "N", "G">>)
            THEN JsDiv(95, 100)
            ELSE IF includes(titleUpper, <<"F", "O", "U", "N", "D", "E", "R">>)
            THEN JsDiv(105, 100)
            ELSE IF includes(titleUpper, <<"1", "0", "%">>)
               \/ includes(titleUpper, <<"O", "W", "N", "E", "R">>)
            THEN JsDiv(90, 100)
            ELSE IF includes(titleUpper, <<"V", "I", "C", "E", " ", "P", "R", "E", "S", "I", "D", "E", "N", "T">>)
               \/ includes(titleUpper, <<"E", "V", "P">>)
               \/ includes(titleUpper, <<"S", "V", "P">>)
            THEN JsDiv(85, 100)
            ELSE IF includes(titleUpper, <<"D", "I", "R", "E", "C", "T", "O", "R">>)
            THEN JsDiv(75, 100)
            ELSE IF includes(titleUpper, <<"O", "F", "F", "I", "C", "E", "R">>)
            THEN JsDiv(70, 100)
            ELSE JsDiv(65, 100)]

\* The second part: the CFO and the CEO multipliers by age.
alphaByAge(type, daysOld) ==
    IF type.isCFO
    THEN (IF daysOld <= 90 THEN JsDiv(126, 100)
          ELSE IF daysOld <= 180 THEN JsDiv(112, 100)
          ELSE IF daysOld <= 270 THEN JsDiv(110, 100)
          ELSE JsDiv(102, 100))
    ELSE IF type.isCEO
    THEN (IF daysOld <= 90 THEN RInt(1)
          ELSE IF daysOld <= 180 THEN JsDiv(95, 100)
          ELSE JsDiv(90, 100))
    ELSE type.baseMultiplier

getExecutiveAlphaMultiplier(title, daysOld) ==
    alphaByAge(executiveType(toUpperCase(title)), daysOld)

\* Math.min(baseWeight * eliteMultiplier, 1.0)
getCongressTimeDecayWeight(daysOld, isEliteTrader) ==
    RMin(RInt(1),
         RMul(IF daysOld <= 14 THEN JsDiv(80, 100)
              ELSE IF daysOld <= 30 THEN JsDiv(60, 100)
              ELSE IF daysOld <= 45 THEN JsDiv(45, 100)
              ELSE IF daysOld <= 60 THEN JsDiv(30, 100)
              ELSE IF daysOld <= 90 THEN JsDiv(15, 100)
              ELSE JsDiv(5, 100),
              IF isEliteTrader THEN JsDiv(3, 2) ELSE RInt(1)))

\* The day on which analyzeConvergence runs (new Date()), in days.
Today == 400

\* A date string is missing (""), unparseable, or names a calendar day.
\* daysSinceTrade: NaN for an unparseable string, else the whole days from
\* the trade's day to now.
daysSinceTrade(tradeDate) ==
    IF tradeDate.text = "unparseable" THEN NaN ELSE RInt(Today - tradeDate.day)

\* if (trade.date) { days = daysSinceTrade(trade.date); if (!isNaN(days) &&
\* days >= 0) daysOld = Math.max(daysOld, days) }: the age after the trade.
agedBy(daysOld, tradeDate) ==
    IF tradeDate.text = "missing" THEN daysOld
    ELSE IF ~IsNaN(daysSinceTrade(tradeDate))
            /\ RGe(daysSinceTrade(tradeDate), Zero)
    THEN Max(daysOld, daysSinceTrade(tradeDate)[1])
    ELSE daysOld

RECURSIVE insiderDaysOldAt(_, _)
\* insiderDaysOld when the loop over signal.insiderBuys scores its k-th trade
\* (and after the loop for k = the number of trades): 7 aged by trades 1..k.
insiderDaysOldAt(insiderBuys, k) ==
    IF k = 0 THEN 7
    ELSE agedBy(insiderDaysOldAt(insiderBuys, k - 1), insiderBuys[k].date)

RECURSIVE congressDaysOldAt(_, _)
\* congressDaysOld likewise, from 30.
congressDaysOldAt(congressBuys, k) ==
    IF k = 0 THEN 30
    ELSE agedBy(congressDaysOldAt(congressBuys, k - 1), congressBuys[k].tradeDate)

\* What the insider loop adds to score for a trade.
insiderScored(trade, insiderDaysOld) ==
    RMul(RMul(RMin(RMul(RInt(IF trade.executiveScore # 0
                             THEN trade.executiveScore ELSE 30),
                        JsDiv(1, 2)), RInt(50)),
              getInsiderTimeDecayWeight(insiderDaysOld)),
         getExecutiveAlphaMultiplier(trade.title, insiderDaysOld))

\* fetchPoliticianPerformance().get(politician)?.dynamicScore, 30 without an
\* entry: Nancy Pelosi 40 + 23.4 + 30, Ro Khanna 40 + 18 + 15.
traderScore(politician) ==
    IF politician = "Nancy Pelosi" THEN JsDiv(934, 10)
    ELSE IF politician = "Ro Khanna" THEN RInt(73)
    ELSE RInt(30)

\* What the congress loop adds to score for a trade.
congressScored(trade, congressDaysOld) ==
    RMul(RMin(RMul(traderScore(trade.politician), JsDiv(8, 10)), RInt(80)),
         getCongressTimeDecayWeight(congressDaysOld,
             RGe(traderScore(trade.politician), RInt(75))))

\* Math.round of a finite JS number.
MathRound(r) == FloorDiv(2 * r[1] + r[2], 2 * r[2])

\* The bonuses the scoring loop adds around the two trade loops.
bonuses(insiderBuys, congressBuys, insiderDaysOld, congressDaysOld) ==
    LET totalInsiderValue ==
            SeqSum([k \in 1..Len(insiderBuys) |-> insiderBuys[k].value])
        hasTopExecutive ==
            \E k \in 1..Len(insiderBuys) : insiderBuys[k].executiveScore >= 85
        hasEliteTrader ==
            \E k \in 1..Len(congressBuys) :
                RGe(traderScore(congressBuys[k].politician), RInt(75))
        avgDecay ==
            RDivInt(RAdd(getInsiderTimeDecayWeight(insiderDaysOld),
                         getCongressTimeDecayWeight(congressDaysOld,
                                                    hasEliteTrader)), 2)
    IN  RSeqSum(<<
          RInt(IF Len(insiderBuys) >= 3 THEN 30
               ELSE IF Len(insiderBuys) >= 2 THEN 15 ELSE 0),
          RInt(IF totalInsiderValue > 5000000 THEN 50
               ELSE IF totalInsiderValue > 1000000 THEN 35
               ELSE IF totalInsiderValue > 500000 THEN 25
               ELSE IF totalInsiderValue > 100000 THEN 15 ELSE 0),
          IF Len(insiderBuys) > 0 /\ Len(congressBuys) > 0
          THEN RMul(avgDecay,
                    RInt(30 + (IF hasTopExecutive /\ hasEliteTrader THEN 75
                               ELSE IF hasTopExecutive \/ hasEliteTrader
                               THEN 35 ELSE 0)))
          ELSE Zero,
          IF \E k \in 1..Len(congressBuys) :
                RGe(traderScore(congressBuys[k].politician), RInt(80))
          THEN RMul(RInt(40),
                    IF RLt(getCongressTimeDecayWeight(congressDaysOld, TRUE),
                           JsDiv(3, 10))
                    THEN JsDiv(3, 10)
                    ELSE getCongressTimeDecayWeight(congressDaysOld, TRUE))
          ELSE Zero,
          IF \E k \in 1..Len(insiderBuys) : insiderBuys[k].executiveScore >= 150
          THEN RMul(RInt(40),
                    IF RLt(getInsiderTimeDecayWeight(insiderDaysOld),
                           JsDiv(3, 10))
                    THEN JsDiv(3, 10)
                    ELSE getInsiderTimeDecayWeight(insiderDaysOld))
          ELSE Zero>>)

\* The StockSignal of one ticker after the scoring loop, with the decay
\* weight each insider trade was scored with.
stockSignal(ticker, insiderBuys, congressBuys) ==
    [ticker |-> ticker,
     insiderBuys |-> insiderBuys,
     decayWeights |->
        [k \in 1..Len(insiderBuys) |->
            getInsiderTimeDecayWeight(insiderDaysOldAt(insiderBuys, k))],
     convergenceScore |->
        RInt(MathRound(RSeqSum(
            [k \in 1..Len(insiderBuys) |->
                insiderScored(insiderBuys[k], insiderDaysOldAt(insiderBuys, k))]
            \o [k \in 1..Len(congressBuys) |->
                congressScored(congressBuys[k],
                               congressDaysOldAt(congressBuys, k))]
            \o <<bonuses(insiderBuys, congressBuys,
                         insiderDaysOldAt(insiderBuys, Len(insiderBuys)),
                         congressDaysOldAt(congressBuys, Len(congressBuys)))>>)))]

\* analyzeConvergence: one signal per ticker in the order the tickers enter
\* stockMap, those with a positive score kept, sorted by score descending.
analyzeConvergence(insiderTrades, congressTrades) ==
    LET tickers == FirstSeen(TickersOf(insiderTrades) \o TickersOf(congressTrades),
                             <<>>)
    IN  SortedBy(
            SelectSeq([k \in 1..Len(tickers) |->
                          stockSignal(tickers[k],
                              SelectSeq(insiderTrades,
                                        LAMBDA t : t.ticker = tickers[k]),
                              SelectSeq(congressTrades,
                                        LAMBDA t : t.ticker = tickers[k]))],
                      LAMBDA g : RGt(g.convergenceScore, Zero)),
            "convergenceScore")

(* ------------------ inputs and calls of the decay scoring --------------- *)
\* Titles of a CFO and of a CEO, short and spelled out, and two others.
DecayTitles ==
    {<<"C", "F", "O">>, <<"C", "h", "i", "e", "f", " ", "F", "i", "n", "a", "n", "c", "i", "a", "l", " ", "O", "f", "f", "i", "c", "e", "r">>, <<"C", "E", "O">>, <<"C", "h", "i", "e", "f", " ", "E", "x", "e", "c", "u", "t", "i", "v", "e", " ", "O", "f", "f", "i", "c", "e", "r">>,
     <<"D", "i", "r", "e", "c", "t", "o", "r">>, <<>>}

\* Ages below, on and above each breakpoint (90, 180, 270 days).
DecayAges == {0, 45, 90, 91, 180, 181, 270, 271, 365, 400}

\* Dates of a trade: none, an unparseable one, yesterday, 200 days ago, and
\* tomorrow.
TradeDates ==
    {[text |-> "missing", day |-> 0], [text |-> "unparseable", day |-> 0],
     [text |-> "iso", day |-> Today - 1], [text |-> "iso", day |-> Today - 200],
     [text |-> "iso", day |-> Today + 1]}

\* Insider trades: a CEO buying $2M (executiveScore 100 * 1.5) and a
\* director buying $50K (50 * 1.0), on each of the dates.
InsiderTrades ==
    {[ticker |-> "AAA", title |-> <<"C", "E", "O">>, value |-> 2000000,
      executiveScore |-> 150, date |-> d] : d \in TradeDates}
    \cup {[ticker |-> "AAA", title |-> <<"D", "i", "r", "e", "c", "t", "o", "r">>, value |-> 50000,
           executiveScore |-> 50, date |-> d] : d \in TradeDates}
    \cup {[ticker |-> "BBB", title |-> <<"C", "F", "O">>, value |-> 50000,
           executiveScore |-> 95, date |-> [text |-> "iso", day |-> Today - 1]]}

\* Legislator trades: an elite trader, and one without a performance entry.
CongressTrades ==
    {[ticker |-> "AAA", politician |-> "Nancy Pelosi", tradeDate |-> d]
        : d \in {[text |-> "missing", day |-> 0],
                 [text |-> "iso", day |-> Today - 100]}}
    \cup {[ticker |-> "AAA", politician |-> "Jane Doe",
           tradeDate |-> [text |-> "iso", day |-> Today - 10]]}

\* Each behaviour makes one call of one of the two functions.
CallAlphaMultiplier ==
    /\ DecayInit
    /\ \E title \in DecayTitles, daysOld \in DecayAges :
         multiplierCalls' =
            <<[title |-> title, daysOld |-> daysOld,
               returned |-> getExecutiveAlphaMultiplier(title, daysOld)]>>
    /\ UNCHANGED <<analyzed, backtestVars, detectVars, weightVars, storeVars,
                   statsVars, runsVars>>

AnalyzeConvergence ==
    /\ DecayInit
    /\ \E a \in 0..MaxTrades :
         \E insiderTrades \in [1..a -> InsiderTrades] :
            \E b \in 0..(MaxTrades - a) :
               \E congressTrades \in [1..b -> CongressTrades] :
                  analyzed' =
                     <<[insiderTrades |-> insiderTrades,
                        congressTrades |-> congressTrades,
                        returned |-> analyzeConvergence(insiderTrades,
                                                        congressTrades)]>>
    /\ UNCHANGED <<multiplierCalls, backtestVars, detectVars, weightVars,
                   storeVars, statsVars, runsVars>>

NextDecay == CallAlphaMultiplier \/ AnalyzeConvergence

SpecDecay == InitComponents /\ [][NextDecay]_vars

(* ------------- two runs of runBacktest on one Backtester --------------- *)
\* A run's own state is the locals of its call of runBacktest (trades,
\* capital, maxCapital, maxDrawdown, maxDrawdownDate, openPositions,
\* currentDate, the signals it was given); runs[r] holds them for the r-th
\* call.  The only field of the Backtester the loop touches is priceCache.
\* solo[r] is the same call made alone on a Backtester of its own, whose
\* cache is soloCache[r]; it moves whenever the r-th run completes a step.

\* The price service: the bars of a ticker dated within the requested range
\* (period1 .. period2), date-ascending.  market[t][k] is the close of ticker
\* t on day k - 1, or 0 where the service has no bar for the day.
serviceBars(range) ==
    SelectSeq([k \in 1..Len(market[range.ticker]) |->
                  [date |-> (k - 1) * MS_PER_DAY,
                   close |-> market[range.ticker][k]]],
              LAMBDA b : /\ b.close # 0
                         /\ range.start <= b.date /\ b.date <= range.end)

\* What getPriceOnDate finds in the response to a request (the target of
\* every lookup is the start of its range).
quoted(range) == CloseOf(getPriceOnDate(serviceBars(range), range.start))

\* const { startDate, ... } = config; the locals before the first await.
startedRun(cfg, signals) ==
    [config |-> cfg, signals |-> signals, currentDate |-> cfg.startDate,
     capital |-> cfg.initialCapital, maxCapital |-> cfg.initialCapital,
     maxDrawdown |-> Zero, maxDrawdownDate |-> <<>>, openPositions |-> <<>>,
     trades |-> <<>>, daySignals |-> <<>>, sliceEnd |-> 0, i |-> 1,
     pc |-> "day", result |-> <<>>]

\* The run is at a call of loadHistoricalPrices.
needsPrice(run) ==
    \/ run.pc = "enter" /\ run.i <= run.sliceEnd
    \/ run.pc = "exit" /\ run.i <= Len(run.openPositions)

\* The range of the call the run is at: the entry loop asks for
\* currentDate .. endDate + holdingPeriodDays, the exit loop for
\* position.entryDate .. currentDate (entryDate is the loop's Date object).
requestRange(run) ==
    IF run.pc = "enter"
    THEN [ticker |-> run.daySignals[run.i].ticker, start |-> run.currentDate,
          end |-> run.config.endDate
                  + run.config.holdingPeriodDays * MS_PER_DAY]
    ELSE [ticker |-> run.openPositions[run.i].ticker,
          start |-> run.currentDate, end |-> run.currentDate]

\* Mutant of requestKey: the cache key leaves out the end of the range.
requestKey_NoEnd(range) == cacheKey(range.ticker, range.start, range.start)

\* `${ticker}-${range.start.toISOString()}-${range.end.toISOString()}`
requestKey(range) == cacheKey(range.ticker, range.start, range.end)

\* The day's signals: qualified, dated today, ticker not open; then sliced.
startDay(run) ==
    LET todays == run.signals[run.currentDate \div MS_PER_DAY + 1]
        filtered == SelectSeq(todays, LAMBDA s :
            /\ s.convergenceScore >= run.config.minConvergenceScore
            /\ \A k \in 1..Len(run.openPositions) :
                 run.openPositions[k].ticker # s.ticker)
    IN  [run EXCEPT !.daySignals = filtered,
                    !.sliceEnd = SliceCount(Len(filtered), run.config.maxPositions,
                                            Len(run.openPositions)),
                    !.i = 1, !.pc = "enter"]

\* The body of the entry loop for daySignals[i], given the price found.
enterPosition(run, entryPrice) ==
    LET signal == run.daySignals[run.i]
        slots == run.config.maxPositions - Len(run.openPositions)
        shares == SharesFor(run.capital, slots, entryPrice[1])
    IN  IF entryPrice # <<>> /\ run.capital > 0 /\ SharesOk(shares)
        THEN [run EXCEPT
                 !.openPositions = MapSet(@,
                     [ticker |-> signal.ticker,
                      convergenceScore |-> signal.convergenceScore,
                      entryPrice |-> entryPrice[1], shares |-> shares]),
                 !.capital = CapitalAfterEntry(@, shares, entryPrice[1]),
                 !.i = @ + 1]
        ELSE [run EXCEPT !.i = @ + 1]

\* The four exit checks on a position of the run (daysSinceEntry is 0:
\* position.entryDate is currentDate itself).
shouldExit(run, returnPercent) ==
    \/ run.config.stopLoss # 0 /\ RLe(returnPercent, RInt(-run.config.stopLoss))
    \/ run.config.takeProfit # 0 /\ RGe(returnPercent, RInt(run.config.takeProfit))
    \/ 0 >= run.config.holdingPeriodDays
    \/ run.currentDate >= run.config.endDate

exitReasonOf(run, returnPercent) ==
    IF run.currentDate >= run.config.endDate THEN "end_of_test"
    ELSE IF 0 >= run.config.holdingPeriodDays THEN "holding_period"
    ELSE IF run.config.takeProfit # 0
            /\ RGe(returnPercent, RInt(run.config.takeProfit)) THEN "take_profit"
    ELSE "stop_loss"

\* The body of the exit loop for the i-th position, given the price found.
exitPosition(run, currentPrice) ==
    LET position == run.openPositions[run.i]
        returnPercent == JsDiv((currentPrice[1] - position.entryPrice) * 100,
                               position.entryPrice)
    IN  IF currentPrice = <<>> THEN [run EXCEPT !.i = @ + 1]
        ELSE IF shouldExit(run, returnPercent)
        THEN [run EXCEPT
                 !.trades = Append(@,
                     [ticker |-> position.ticker,
                      entryPrice |-> position.entryPrice,
                      exitPrice |-> currentPrice[1],
                      exitDate |-> run.currentDate,
                      shares |-> position.shares,
                      returnPercent |-> returnPercent,
                      returnDollars |-> position.shares
                                        * (currentPrice[1] - position.entryPrice),
                      exitReason |-> exitReasonOf(run, returnPercent)]),
                 !.capital = CapitalAfterExit(@, position.shares, currentPrice[1]),
                 !.openPositions = MapDeleteAt(@, run.i)]
        ELSE [run EXCEPT !.i = @ + 1]

\* Drawdown tracking and currentDate.setDate(currentDate.getDate() + 1).
endDay(run) ==
    LET totalValue == run.capital + CostBasis(run.openPositions)
        peak == Max(run.maxCapital, totalValue)
        currentDrawdown == JsDiv((totalValue - peak) * 100, peak)
        deepens == DrawdownDeepens(currentDrawdown, run.maxDrawdown)
    IN  [run EXCEPT !.maxCapital = peak,
                    !.maxDrawdown = IF deepens THEN currentDrawdown ELSE @,
                    !.maxDrawdownDate = IF deepens THEN <<run.currentDate>> ELSE @,
                    !.currentDate = @ + MS_PER_DAY,
                    !.daySignals = <<>>, !.sliceEnd = 0, !.i = 1, !.pc = "day"]

\* The BacktestResult: the trades and the figures taken from the run's state
\* (the remaining metrics are functions of the trades).
returned(run) ==
    [run EXCEPT !.pc = "done",
                !.result = <<[trades |-> run.trades,
                              totalReturn |-> JsDiv(
                                  (run.capital - run.config.initialCapital) * 100,
                                  run.config.initialCapital),
                              totalReturnDollars |->
                                  run.capital - run.config.initialCapital,
                              finalCapital |-> run.capital,
                              maxDrawdown |-> run.maxDrawdown,
                              maxDrawdownDate |-> run.maxDrawdownDate,
                              totalTrades |-> Len(run.trades)]>>]

\* One stretch of the loop's synchronous code; price is what getPriceOnDate
\* found in the list the awaited loadHistoricalPrices returned, where the
\* stretch starts after one.
resume(run, price) ==
    IF run.pc = "day"
    THEN IF run.currentDate <= run.config.endDate THEN startDay(run)
         ELSE returned(run)
    ELSE IF run.pc = "enter"
    THEN IF run.i <= run.sliceEnd THEN enterPosition(run, price)
         ELSE [run EXCEPT !.pc = "exit", !.i = 1]
    ELSE IF run.pc = "exit"
    THEN IF run.i <= Len(run.openPositions) THEN exitPosition(run, price)
         ELSE endDay(run)
    ELSE run

RECURSIVE untilAwait(_)
\* The run goes on until it awaits loadHistoricalPrices again or returns:
\* nothing else runs in between.
untilAwait(run) ==
    IF run.pc = "done" \/ needsPrice(run) THEN run
    ELSE untilAwait(resume(run, <<>>))

\* The same call made alone goes from one await to the next: its load goes
\* to its own cache.
aloneStep(run, cache) ==
    IF run.pc = "done" THEN [run |-> run, cache |-> cache]
    ELSE IF requestKey(requestRange(run)) \in DOMAIN cache
    THEN [run |-> untilAwait(resume(run, cache[requestKey(requestRange(run))])),
          cache |-> cache]
    ELSE [run |-> untilAwait(resume(run, quoted(requestRange(run)))),
          cache |-> (requestKey(requestRange(run)) :> quoted(requestRange(run)))
                    @@ cache]

RunTickers == {"AAA"}

\* Inputs of the two calls: what the price service knows, the configurations
\* and the signal lists (by day) the calls are given.
Markets == [RunTickers -> [1..MaxDays + 2 -> {0} \cup Prices]]
RunConfigs ==
    {c \in ValidConfigs : /\ c.endDate = MaxDays * MS_PER_DAY
                          /\ c.initialCapital = 180 /\ c.maxPositions = 2
                          /\ c.stopLoss = 20 /\ c.takeProfit = 25}
RunSignals ==
    [1..MaxDays + 1 ->
        {<<>>} \cup {<<[ticker |-> t, convergenceScore |-> 60]>> : t \in RunTickers}]

\* Two calls of runBacktest are made on the Backtester, neither awaited
\* before the other is made; each goes on to its first price request.
CallTwice ==
    /\ runs = <<>>
    /\ \E m \in Markets, c1, c2 \in RunConfigs, s1, s2 \in RunSignals :
         /\ market' = m
         /\ runs' = <<untilAwait(startedRun(c1, s1)),
                      untilAwait(startedRun(c2, s2))>>
    /\ solo' = runs'
    /\ soloCache' = <<priceCache, priceCache>>
    /\ fetching' = <<FALSE, FALSE>>
    /\ UNCHANGED <<backtestVars, detectVars, weightVars, storeVars, statsVars,
                   decayVars>>

\* if (this.priceCache.has(cacheKey)) return this.priceCache.get(cacheKey).
LoadCached ==
    \E r \in DOMAIN runs :
        /\ runs[r].pc # "done" /\ ~fetching[r]
        /\ requestKey(requestRange(runs[r])) \in DOMAIN priceCache
        /\ runs' = [runs EXCEPT ![r] =
                      untilAwait(resume(@, priceCache[requestKey(requestRange(@))]))]
        /\ solo' = [solo EXCEPT ![r] = aloneStep(@, soloCache[r]).run]
        /\ soloCache' = [soloCache EXCEPT ![r] = aloneStep(solo[r], @).cache]
        /\ UNCHANGED <<market, fetching, backtestVars, detectVars, weightVars,
                       storeVars, statsVars, decayVars>>

\* The key is not cached: the request is sent and the run awaits the answer.
SendRequest ==
    \E r \in DOMAIN runs :
        /\ runs[r].pc # "done" /\ ~fetching[r]
        /\ requestKey(requestRange(runs[r])) \notin DOMAIN priceCache
        /\ fetching' = [fetching EXCEPT ![r] = TRUE]
        /\ UNCHANGED <<market, runs, solo, soloCache, backtestVars, detectVars,
                       weightVars, storeVars, statsVars, decayVars>>

\* The answer arrives: this.priceCache.set(cacheKey, prices); return prices.
ReceivePrices ==
    \E r \in DOMAIN runs :
        /\ fetching[r]
        /\ priceCache' = (requestKey(requestRange(runs[r])) :> quoted(requestRange(runs[r])))
                         @@ priceCache
        /\ runs' = [runs EXCEPT ![r] =
                      untilAwait(resume(@, quoted(requestRange(@))))]
        /\ solo' = [solo EXCEPT ![r] = aloneStep(@, soloCache[r]).run]
        /\ soloCache' = [soloCache EXCEPT ![r] = aloneStep(solo[r], @).cache]
        /\ fetching' = [fetching EXCEPT ![r] = FALSE]
        /\ UNCHANGED <<market, runLocals, detectVars, weightVars, storeVars,
                       statsVars, decayVars>>

NextRuns == CallTwice \/ LoadCached \/ SendRequest \/ ReceivePrices
SpecRuns == InitComponents /\ [][NextRuns]_vars

(* ------------------------------ claims --------------------------------- *)
\* Sum of returnDollars over the trades recorded so far.
RealizedReturn == SeqSum([k \in 1..Len(trades) |-> trades[k].returnDollars])

\* Whole calendar days between a position's entry day and the current day.
CalendarDaysHeld(position) ==
    FloorDiv(currentDate - position.enteredOn, MS_PER_DAY)

C2_NoPositionOpenAtReturn == pc = "done" => Len(openPositions) = 0

HighestPriority(conditions) ==
    IF "stop_loss" \in conditions THEN "stop_loss"
    ELSE IF "take_profit" \in conditions THEN "take_profit"
    ELSE IF "holding_period" \in conditions THEN "holding_period"
    ELSE "end_of_test"

\* C3: the exitReason of every recorded trade is the highest-priority exit
\* condition that held for it, in the order stop_loss, take_profit,
\* holding_period, end_of_test.
C3_ExitReasonByPriority ==
    \A k \in 1..Len(trades) :
        trades[k].exitReason = HighestPriority(trades[k].triggered)

\* C4: when the exit loop finds a price for a position whose entry day lies
\* holdingPeriodDays or more calendar days back, on a day before the end date
\* and without a stop-loss or take-profit hit, it closes the position with
\* exitReason holding_period and holdingDays = the days between entry day and
\* exit day.
C4_ClosedWhenHoldingPeriodReached ==
    [][(/\ pc = "exit"
        /\ i <= Len(openPositions)
        /\ px' # <<>>
        /\ ~EndOfTestHit
        /\ LET r == JsDiv((px'[1] - openPositions[i].entryPrice) * 100,
                          openPositions[i].entryPrice)
           IN  ~StopLossHit(r) /\ ~TakeProfitHit(r)
        /\ CalendarDaysHeld(openPositions[i]) >= config.holdingPeriodDays)
       => (/\ Len(trades') = Len(trades) + 1
           /\ trades'[Len(trades')].exitReason = "holding_period"
           /\ trades'[Len(trades')].holdingDays
                = CalendarDaysHeld(openPositions[i]))]_vars

\* C5: every trade of a position whose return percent was <= -stopLoss on
\* its exit day is recorded with exitReason stop_loss.
C5_StopLossReason ==
    \A k \in 1..Len(trades) :
        (config.stopLoss > 0
         /\ RLe(trades[k].returnPercent, RInt(-config.stopLoss)))
        => trades[k].exitReason = "stop_loss"

\* C6: the number of open positions never exceeds maxPositions, and no step
\* enters a position (debits cash) while maxPositions positions are open.
C6_PositionCap ==
    /\ [](Len(openPositions) <= config.maxPositions)
    /\ [][(capital' < capital \/ Len(openPositions') > Len(openPositions))
          => Len(openPositions) < config.maxPositions]_vars

\* The table is full at the start of a day that has a qualifying signal for
\* a ticker without a position, and the slice admits no candidate.
C6_Witness ==
    /\ pc = "enter"
    /\ Len(openPositions) = config.maxPositions
    /\ Len(daySignals) > 0
    /\ sliceEnd = 0

\* C7: cash is debited only by an entry for a ticker that has no open
\* position.
C7_DebitOnlyForNewTicker ==
    [][capital' < capital => daySignals[i].ticker \notin OpenTickers]_vars

\* C8: a config with maxPositions <= 0 or endDate before startDate is
\* rejected: no day is simulated and no result is returned.
C8_InvalidConfigRejected ==
    InvalidConfig(config) => (pc = "day" /\ result = <<>>)

\* C9: an entry without a price bar or with a share count of 0 leaves cash
\* and the position table unchanged, and an exit check without a price
\* leaves the position, the cash and the trades unchanged.
C9_SkipsLeaveStateUnchanged ==
    [][/\ (/\ pc = "enter"
           /\ i <= sliceEnd
           /\ \/ px' = <<>>
              \/ SharesFor(capital, config.maxPositions - Len(openPositions),
                           px'[1]) = 0)
          => UNCHANGED <<capital, openPositions, trades>>
       /\ (pc = "exit" /\ i <= Len(openPositions) /\ px' = <<>>)
          => UNCHANGED <<capital, openPositions, trades>>]_vars

\* An exit check found no price for the first open position and left it open;
\* earlier the same day an entry was skipped or made.
C9_Witness ==
    /\ pc = "exit"
    /\ i = 2
    /\ px = <<>>
    /\ Len(openPositions) >= 1

\* An entry was skipped because the share count came out 0.
C9_WitnessZeroShares ==
    /\ pc = "enter"
    /\ i = 2
    /\ px # <<>>
    /\ capital > 0
    /\ Len(openPositions) = 0

\* C10: with initialCapital = 0 the returned totalReturn and maxDrawdown
\* are 0.
C10_ZeroCapitalGivesZero ==
    (pc = "done" /\ config.initialCapital = 0)
    => (result[1].totalReturn = Zero /\ result[1].maxDrawdown = Zero)

\* C11: maxDrawdown is <= 0 after every simulated day and in every returned
\* BacktestResult.
C11_DrawdownNonPositive ==
    /\ RLe(maxDrawdown, Zero)
    /\ pc = "done" => RLe(result[1].maxDrawdown, Zero)

\* A result is returned whose maxDrawdown is below 0: a position was closed
\* at a loss and the portfolio value fell under its peak.
C11_Witness ==
    /\ pc = "done"
    /\ RLt(result[1].maxDrawdown, Zero)
    /\ \E k \in 1..Len(trades) : trades[k].returnDollars < 0

\* The number of trades of a list whose returnPercent is above 0.
WinCount(ts) == Cardinality({k \in 1..Len(ts) : RGt(ts[k].returnPercent, Zero)})

\* C12: every returned result has 0 <= winRate <= 1; winRate is the number of
\* trades with returnPercent > 0 over the number of trades for a non-empty
\* trade list and 0 for an empty one.
C12_WinRate ==
    pc = "done" =>
        LET r == result[1]
        IN  /\ RGe(r.winRate, Zero)
            /\ RLe(r.winRate, RInt(1))
            /\ Len(r.trades) > 0 =>
                   r.winRate = JsDiv(WinCount(r.trades), Len(r.trades))
            /\ Len(r.trades) = 0 => r.winRate = Zero

\* A result with one winning and one losing trade: winRate is 1/2.
C12_Witness ==
    /\ pc = "done"
    /\ Len(result[1].trades) = 2
    /\ result[1].winRate = <<1, 2>>

\* A result with an empty trade list.
C12_WitnessEmpty == pc = "done" /\ Len(result[1].trades) = 0

InRange0To100(x) == RGe(x, Zero) /\ RLe(x, RInt(100))

\* C13: every signal detectConvergence emits has insiderScore, congressScore,
\* institutionalScore and convergenceScore in [0, 100], and the overallScore
\* scoreStock returns is in [0, 100].
C13_ScoresBounded ==
    /\ detected # <<>> =>
         \A k \in 1..Len(detected[1]) :
            /\ InRange0To100(detected[1][k].insiderScore)
            /\ InRange0To100(detected[1][k].congressScore)
            /\ InRange0To100(detected[1][k].institutionalScore)
            /\ InRange0To100(detected[1][k].convergenceScore)
    /\ stockScore # <<>> => InRange0To100(stockScore[1].overallScore)

\* A signal is emitted whose raw insider score (a CEO buying $5M: 75, doubled
\* 150) and whose raw overall score are above 100 and come out as 100.
C13_Witness ==
    /\ detected # <<>>
    /\ \E k \in 1..Len(detected[1]) :
         /\ detected[1][k].insiderScore = RInt(100)
         /\ detected[1][k].convergenceScore = RInt(100)

\* scoreStock returned a clamped overall score of 100 for a ticker.
C13_WitnessScoreStock ==
    stockScore # <<>> /\ stockScore[1].overallScore = RInt(100)

\* The number of bullish events of a ticker in each input collection.
BullishInsider(ticker) ==
    Cardinality({k \in 1..Len(insiderTransactions) :
        /\ insiderTransactions[k].ticker = ticker
        /\ insiderTransactions[k].transactionType = "BUY"})
BullishCongress(ticker) ==
    Cardinality({k \in 1..Len(congressTransactions) :
        /\ congressTransactions[k].ticker = ticker
        /\ congressTransactions[k].transactionType = "PURCHASE"})
BullishInstitutional(ticker) ==
    Cardinality({k \in 1..Len(institutionalHoldings) :
        /\ institutionalHoldings[k].ticker = ticker
        /\ institutionalHoldings[k].changeType \in {"INCREASE", "NEW"}})
ActiveCategories(ticker) ==
    (IF BullishInsider(ticker) > 0 THEN 1 ELSE 0)
    + (IF BullishCongress(ticker) > 0 THEN 1 ELSE 0)
    + (IF BullishInstitutional(ticker) > 0 THEN 1 ELSE 0)

\* C14: the convergence bonus of an emitted ticker is 0 with 0 or 1 category
\* holding a bullish event, 15 with exactly 2 and 30 with all 3; a ticker
\* with exactly one bullish event in each category is emitted with all three
\* category counts 1 and a positive bonus.
C14_BonusByActiveCategories ==
    detected # <<>> =>
        /\ \A k \in 1..Len(detected[1]) :
              LET g == detected[1][k]
                  n == ActiveCategories(g.ticker)
              IN  g.convergenceBonus =
                    (IF n = 3 THEN 30 ELSE IF n = 2 THEN 15 ELSE 0)
        /\ \A t \in DetectTickers :
              (BullishInsider(t) = 1 /\ BullishCongress(t) = 1
               /\ BullishInstitutional(t) = 1)
              => \E k \in 1..Len(detected[1]) :
                    /\ detected[1][k].ticker = t
                    /\ detected[1][k].signals
                         = [insiderBuys |-> 1, congressBuys |-> 1,
                            institutionalIncreases |-> 1]
                    /\ detected[1][k].convergenceBonus > 0

\* A ticker with exactly one bullish event in each category was emitted with
\* bonus 30.
C14_Witness ==
    /\ detected # <<>>
    /\ \E k \in 1..Len(detected[1]) :
         /\ detected[1][k].signals = [insiderBuys |-> 1, congressBuys |-> 1,
                                      institutionalIncreases |-> 1]
         /\ detected[1][k].convergenceBonus = 30

\* A ticker with two active categories was emitted with bonus 15.
C14_WitnessTwo ==
    /\ detected # <<>>
    /\ \E k \in 1..Len(detected[1]) : detected[1][k].convergenceBonus = 15

\* The tickers that appear in the input collections.
InputTickers ==
    {insiderTransactions[k].ticker : k \in 1..Len(insiderTransactions)}
    \cup {congressTransactions[k].ticker : k \in 1..Len(congressTransactions)}
    \cup {institutionalHoldings[k].ticker : k \in 1..Len(institutionalHoldings)}

\* C15: detectConvergence emits exactly one signal for each ticker whose
\* overall score is > 10 and none for any other ticker; for three empty
\* collections it returns the empty list.
C15_OneSignalPerTickerAboveFloor ==
    detected # <<>> =>
        /\ \A t \in InputTickers :
              Cardinality({k \in 1..Len(detected[1]) : detected[1][k].ticker = t})
                = (IF RGt(tickerSignal(t, ConvergenceInput).convergenceScore,
                          RInt(10))
                   THEN 1 ELSE 0)
        /\ \A k \in 1..Len(detected[1]) : detected[1][k].ticker \in InputTickers
        /\ EventCount = 0 => detected[1] = <<>>

\* One ticker was emitted while another ticker with a bullish event, whose
\* overall score is at most 10, was not.
C15_Witness ==
    /\ detected # <<>>
    /\ Len(detected[1]) = 1
    /\ \E t \in InputTickers :
         /\ \A k \in 1..Len(detected[1]) : detected[1][k].ticker # t
         /\ ActiveCategories(t) > 0

\* detectConvergence returned the empty list for three empty collections.
C15_WitnessEmpty == detected = <<<<>>>> /\ EventCount = 0

\* The fields of a signal that C16 compares.
SignalCore(g) ==
    [ticker |-> g.ticker, insiderScore |-> g.insiderScore,
     congressScore |-> g.congressScore,
     institutionalScore |-> g.institutionalScore,
     convergenceBonus |-> g.convergenceBonus, signals |-> g.signals,
     convergenceScore |-> g.convergenceScore]
SignalSet(list) == {SignalCore(list[k]) : k \in 1..Len(list)}

\* A list with its elements k and k + 1 exchanged.
SwapAt(list, k) ==
    [j \in 1..Len(list) |->
        IF j = k THEN list[k + 1] ELSE IF j = k + 1 THEN list[k] ELSE list[j]]

\* C16: the set of emitted signals (ticker, category scores, bonus, counts,
\* overall score) is the same when two different neighbouring events of an
\* input collection are exchanged, hence for every permutation of the
\* collections.
C16_OrderIndependent ==
    detected # <<>> =>
        /\ \A k \in 1..(Len(insiderTransactions) - 1) :
              insiderTransactions[k] # insiderTransactions[k + 1] =>
              SignalSet(detectConvergence(
                  [ConvergenceInput EXCEPT !.insiderTransactions = SwapAt(@, k)]))
                = SignalSet(detected[1])
        /\ \A k \in 1..(Len(congressTransactions) - 1) :
              congressTransactions[k] # congressTransactions[k + 1] =>
              SignalSet(detectConvergence(
                  [ConvergenceInput EXCEPT !.congressTransactions = SwapAt(@, k)]))
                = SignalSet(detected[1])
        /\ \A k \in 1..(Len(institutionalHoldings) - 1) :
              institutionalHoldings[k] # institutionalHoldings[k + 1] =>
              SignalSet(detectConvergence(
                  [ConvergenceInput EXCEPT !.institutionalHoldings = SwapAt(@, k)]))
                = SignalSet(detected[1])

\* A signal was emitted for an input whose insider collection holds two
\* different buys and whose legislator collection two different purchases.
C16_Witness ==
    /\ detected # <<>>
    /\ Len(detected[1]) > 0
    /\ Len(insiderTransactions) = 2
    /\ insiderTransactions[1] # insiderTransactions[2]
    /\ BullishInsider("AAA") = 2
    /\ Len(congressTransactions) = 2
    /\ congressTransactions[1] # congressTransactions[2]
    /\ BullishCongress("AAA") = 2

\* The dates of the recentBuyers entries of one type, and of the bullish
\* events of a ticker in a category.
BuyerDates(g, types) ==
    LET b == SelectSeq(g.recentBuyers, LAMBDA r : r.type \in types)
    IN  [k \in 1..Len(b) |-> b[k].date]
InsiderTypes == {"CEO", "CFO", "Director", "Officer", "10%+ Owner"}
BullishCongressDates(ticker) ==
    LET b == SelectSeq(congressTransactions,
                LAMBDA t : t.ticker = ticker /\ t.transactionType = "PURCHASE")
    IN  [k \in 1..Len(b) |-> b[k].transactionDate]
BullishInsiderDates(ticker) ==
    LET b == SelectSeq(insiderTransactions,
                LAMBDA t : t.ticker = ticker /\ t.transactionType = "BUY")
    IN  [k \in 1..Len(b) |-> b[k].transactionDate]
BullishInstitutionalDates(ticker) ==
    LET b == SelectSeq(institutionalHoldings,
                LAMBDA h : h.ticker = ticker /\ h.changeType \in {"INCREASE", "NEW"})
    IN  [k \in 1..Len(b) |-> b[k].filingDate]

\* The chosen dates are the limit most recent of all the dates: as many as
\* the limit allows, and no date left out is later than a chosen one.
MostRecentOf(chosen, all, limit) ==
    /\ Len(chosen) = Min(limit, Len(all))
    /\ \A d \in {chosen[k] : k \in 1..Len(chosen)} :
          Cardinality({k \in 1..Len(all) : all[k] > d})
            = Cardinality({k \in 1..Len(chosen) : chosen[k] > d})

\* C17: recentBuyers of every emitted signal holds at most 5 insider, 3
\* legislator and 3 institutional entries, which are the most recent bullish
\* events of their category by date, and the list is sorted by date
\* descending.
C17_RecentBuyersMostRecent ==
    detected # <<>> =>
        \A k \in 1..Len(detected[1]) :
            LET g == detected[1][k]
            IN  /\ MostRecentOf(BuyerDates(g, InsiderTypes),
                                BullishInsiderDates(g.ticker), 5)
                /\ MostRecentOf(BuyerDates(g, {"Congress"}),
                                BullishCongressDates(g.ticker), 3)
                /\ MostRecentOf(BuyerDates(g, {"Institution"}),
                                BullishInstitutionalDates(g.ticker), 3)
                /\ \A a, b \in 1..Len(g.recentBuyers) :
                      a < b => g.recentBuyers[a].date >= g.recentBuyers[b].date

\* The weight the title-to-weight table gives a title that is one of its keys.
TableWeight(title) ==
    LET k == CHOOSE j \in 1..Len(INSIDER_WEIGHTS) : INSIDER_WEIGHTS[j].title = title
    IN  INSIDER_WEIGHTS[k].weight
TableTitles == {INSIDER_WEIGHTS[k].title : k \in 1..Len(INSIDER_WEIGHTS)}

\* C19: for the same transaction kind and dollar size, calculateInsiderWeight
\* gives a title of the table a strictly higher weight than every title the
\* table ranks lower; in particular weight(CEO) > weight(Director).
C19_HigherTitleHigherWeight ==
    weightCalls # <<>> =>
        LET a == weightCalls[1].input
        IN  a.insiderTitle \in TableTitles =>
              \A lower \in TableTitles :
                 TableWeight(a.insiderTitle) > TableWeight(lower) =>
                    RGt(weightCalls[1].weight,
                        calculateInsiderWeight([a EXCEPT !.insiderTitle = lower]))

\* C20: for the same title and transaction kind, calculateInsiderWeight
\* never gives a larger dollar value shares x pricePerShare a smaller weight.
C20_NonDecreasingInValue ==
    weightCalls # <<>> =>
        LET a == weightCalls[1].input
        IN  \A sh \in WeightShares, pr \in WeightPrices :
               sh * pr >= a.shares * a.pricePerShare =>
                  RGe(calculateInsiderWeight(
                          [a EXCEPT !.shares = sh, !.pricePerShare = pr]),
                      weightCalls[1].weight)

\* A CFO buy of exactly $250,000 (2,500 shares at $100) was weighed on the
\* large tier: 9 * 1.5 * 2 = 27.
C20_Witness ==
    /\ weightCalls # <<>>
    /\ weightCalls[1].input.insiderTitle = <<"C", "F", "O">>
    /\ weightCalls[1].input.transactionType = "BUY"
    /\ weightCalls[1].input.shares * weightCalls[1].input.pricePerShare = 250000
    /\ weightCalls[1].weight = RInt(27)

\* The dedup key of a stored or incoming event: its ticker, actor, date (the
\* instant, however it is held) and size.
InsiderDedupKey(tx) ==
    <<tx.ticker, tx.insiderName, tx.transactionDate.time, tx.shares>>
CongressDedupKey(tx) ==
    <<tx.ticker, tx.memberName, tx.transactionDate.time, tx.amountRange.min>>
HoldingDedupKey(h) == <<h.ticker, h.institutionCIK, h.reportDate.time>>

\* No two entries of a list of keys are equal.
AllDifferent(keys) == \A a, b \in 1..Len(keys) : keys[a] = keys[b] => a = b

\* C18: after any sequence of save calls the store holds at most one record
\* per dedup key in each of its three tables.
C18_OneRecordPerDedupKey ==
    /\ AllDifferent([k \in 1..Len(insider_transactions) |->
                        InsiderDedupKey(insider_transactions[k])])
    /\ AllDifferent([k \in 1..Len(congress_transactions) |->
                        CongressDedupKey(congress_transactions[k])])
    /\ AllDifferent([k \in 1..Len(institutional_holdings) |->
                        HoldingDedupKey(institutional_holdings[k])])

\* The table bonuses a list of committees earns: the weight of every table
\* entry whose name some committee contains, ignoring case.
MatchedBonuses(committees) ==
    {CONGRESS_COMMITTEE_WEIGHTS[k].weight :
        k \in {j \in 1..Len(CONGRESS_COMMITTEE_WEIGHTS) :
                  \E c \in 1..Len(committees) :
                     includes(toLowerCase(committees[c]),
                              toLowerCase(CONGRESS_COMMITTEE_WEIGHTS[j].name))}}

SetMax(S) == CHOOSE m \in S : \A n \in S : n <= m

\* The factor of the transaction kind and the factor of the average amount.
CongressKindFactor(kind) == IF kind = "PURCHASE" THEN JsDiv(3, 2) ELSE JsDiv(1, 2)
CongressAmountFactor(range) ==
    LET twiceAvg == range.min + range.max
    IN  IF twiceAvg >= 2000000 THEN RInt(3)
        ELSE IF twiceAvg >= 500000 THEN RInt(2)
        ELSE IF twiceAvg >= 100000 THEN JsDiv(3, 2)
        ELSE RInt(1)

\* C21: calculateCongressWeight equals (base + committeeBonus) x kind factor
\* x amount factor, where committeeBonus >= 0 is the largest table bonus over
\* the member's committees that match a table entry by substring; adding a
\* committee to the member's committees never lowers the weight.
C21_CongressWeightFormula ==
    congressWeightCalls # <<>> =>
        LET input == congressWeightCalls[1].input
            weight == congressWeightCalls[1].weight
            committeeBonus == SetMax(MatchedBonuses(input.committees) \cup {0})
        IN  /\ committeeBonus >= 0
            /\ weight = RMul(RMul(RInt(5 + committeeBonus),
                                  CongressKindFactor(input.transactionType)),
                             CongressAmountFactor(input.amountRange))
            /\ \A extra \in WeightCommittees :
                  RGe(calculateCongressWeight(
                          [input EXCEPT !.committees = Append(@, extra)]),
                      weight)

\* A purchase by a member of Judiciary and of "House ENERGY", averaging
\* exactly $250,000, was weighed (5 + 8) * 1.5 * 2 = 39.
C21_Witness ==
    /\ congressWeightCalls # <<>>
    /\ congressWeightCalls[1].input.committees =
          <<<<"H", "o", "u", "s", "e", " ", "E", "N", "E", "R", "G", "Y">>,
            <<"J", "u", "d", "i", "c", "i", "a", "r", "y">>>>
    /\ congressWeightCalls[1].input.transactionType = "PURCHASE"
    /\ congressWeightCalls[1].input.amountRange = [min |-> 250000, max |-> 250000]
    /\ congressWeightCalls[1].weight = RInt(39)

\* C22: for every dollar value and ownership percentage, the weight
\* calculateInstitutionalWeight gives a DECREASE or SOLD_OUT holding is >= 0
\* and <= the weight of an INCREASE holding of the same value and ownership
\* percentage.
C22_ExitNeverAboveIncrease ==
    holdingWeightCalls # <<>> =>
        LET holding == holdingWeightCalls[1].input
        IN  holding.changeType \in {"DECREASE", "SOLD_OUT"} =>
              /\ RGe(holdingWeightCalls[1].weight, Zero)
              /\ RLe(holdingWeightCalls[1].weight,
                     calculateInstitutionalWeight(
                         [holding EXCEPT !.changeType = "INCREASE"]))

\* A SOLD_OUT holding of $1,000M with 12% ownership was weighed
\* 5 * 0.3 * 3 * 1.5 = 6.75.
C22_Witness ==
    /\ holdingWeightCalls # <<>>
    /\ holdingWeightCalls[1].input =
          [changeType |-> "SOLD_OUT", value |-> 1000000000,
           ownershipPercent |-> 12]
    /\ holdingWeightCalls[1].weight = JsDiv(27, 4)

\* C23: compareToSPY with fewer than two benchmark price points returns
\* spyReturn = 0 and alpha = the strategy's totalReturn; with two or more
\* points it returns spyReturn = (last close - first close) / first close x
\* 100 and alpha = totalReturn - spyReturn.
C23_FlatBenchmarkBelowTwoPoints ==
    comparison # <<>> =>
        LET c == comparison[1]
            closes == c.spyPrices
        IN  IF Len(closes) < 2
            THEN /\ c.returned.spyReturn = Zero
                 /\ c.returned.alpha = c.result.totalReturn
            ELSE /\ c.returned.spyReturn =
                       RMul(RDiv(RInt(closes[Len(closes)] - closes[1]),
                                 RInt(closes[1])), RInt(100))
                 /\ c.returned.alpha =
                       RSub(c.result.totalReturn, c.returned.spyReturn)

\* A 5% strategy was compared with a benchmark that went 100, 50, 200: the
\* benchmark return is 100% and alpha is -95.
C23_Witness ==
    /\ comparison # <<>>
    /\ comparison[1].spyPrices = <<100, 50, 200>>
    /\ comparison[1].result.totalReturn = RInt(5)
    /\ comparison[1].returned.spyReturn = RInt(100)
    /\ comparison[1].returned.alpha = RInt(-95)

\* A strategy was compared with a single benchmark point.
C23_WitnessOnePoint ==
    /\ comparison # <<>>
    /\ Len(comparison[1].spyPrices) = 1
    /\ comparison[1].result.hasPeriod

\* The largest / smallest element of a non-empty set of finite JS numbers.
RSetMax(S) == CHOOSE m \in S : \A r \in S : RLe(r, m)
RSetMin(S) == CHOOSE m \in S : \A r \in S : RGe(r, m)

\* C24: for every non-empty list of per-period results, whatever the signs
\* of their returns, calculateAggregateStats reports bestPeriod.return = the
\* maximum totalReturn of the list and worstPeriod.return = the minimum.
C24_BestWorstAreExtremes ==
    (aggregate # <<>> /\ aggregate[1].results # <<>>) =>
        LET results == aggregate[1].results
            returns == {results[k].totalReturn : k \in 1..Len(results)}
        IN  /\ aggregate[1].returned.bestPeriod.return = RSetMax(returns)
            /\ aggregate[1].returned.worstPeriod.return = RSetMin(returns)

\* C30: on every path of compareToSPY, outperformed is true exactly when
\* alpha > 0.
C30_OutperformedIffAlphaPositive ==
    comparison # <<>> =>
        (comparison[1].returned.outperformed
            <=> RGt(comparison[1].returned.alpha, Zero))

\* The date of a trade parses and is not in the future.
ValidDate(d) == d.text = "iso" /\ d.day <= Today

\* C25: in analyzeConvergence a trade whose date is missing or unparseable is
\* scored with the smallest decay weight (or adds nothing to the score), and
\* never with a weight fresher than that of a trade of the same ticker with
\* a valid date.
C25_UndatedTradeIsStalest ==
    analyzed # <<>> =>
        \A n \in 1..Len(analyzed[1].returned) :
            LET g == analyzed[1].returned[n]
            IN  \A k \in 1..Len(g.insiderBuys) :
                    g.insiderBuys[k].date.text \in {"missing", "unparseable"} =>
                        /\ \/ g.decayWeights[k] = JsDiv(5, 100)
                           \/ insiderScored(g.insiderBuys[k],
                                  insiderDaysOldAt(g.insiderBuys, k)) = Zero
                        /\ \A j \in 1..Len(g.insiderBuys) :
                              ValidDate(g.insiderBuys[j].date) =>
                                 RLe(g.decayWeights[k], g.decayWeights[j])

\* The convergenceScore of every returned ticker.
ScoreByTicker(list) ==
    {<<list[k].ticker, list[k].convergenceScore>> : k \in 1..Len(list)}

\* C26: the convergenceScore analyzeConvergence computes for a ticker is the
\* same when two neighbouring trades of an input collection are exchanged,
\* hence for every order of the collections.
C26_DecayScoreOrderIndependent ==
    analyzed # <<>> =>
        /\ \A k \in 1..(Len(analyzed[1].insiderTrades) - 1) :
              ScoreByTicker(analyzeConvergence(
                                SwapAt(analyzed[1].insiderTrades, k),
                                analyzed[1].congressTrades))
                = ScoreByTicker(analyzed[1].returned)
        /\ \A k \in 1..(Len(analyzed[1].congressTrades) - 1) :
              ScoreByTicker(analyzeConvergence(
                                analyzed[1].insiderTrades,
                                SwapAt(analyzed[1].congressTrades, k)))
                = ScoreByTicker(analyzed[1].returned)

\* The CFO-minus-CEO difference of the multipliers at an age.
AlphaGap(cfoTitle, ceoTitle, daysOld) ==
    RSub(getExecutiveAlphaMultiplier(cfoTitle, daysOld),
         getExecutiveAlphaMultiplier(ceoTitle, daysOld))

\* C28: at every age getExecutiveAlphaMultiplier gives a CFO title a
\* multiplier >= that of a CEO title; the CFO-minus-CEO difference is largest
\* for ages <= 90 days and never increases as the age grows.
C28_CfoGapDecays ==
    (multiplierCalls # <<>>
     /\ multiplierCalls[1].title \in {<<"C", "F", "O">>, <<"C", "h", "i", "e", "f", " ", "F", "i", "n", "a", "n", "c", "i", "a", "l", " ", "O", "f", "f", "i", "c", "e", "r">>}) =>
        \A ceo \in {<<"C", "E", "O">>, <<"C", "h", "i", "e", "f", " ", "E", "x", "e", "c", "u", "t", "i", "v", "e", " ", "O", "f", "f", "i", "c", "e", "r">>} :
            LET cfo == multiplierCalls[1].title
                daysOld == multiplierCalls[1].daysOld
            IN  /\ RGe(multiplierCalls[1].returned,
                       getExecutiveAlphaMultiplier(ceo, daysOld))
                /\ \A young \in DecayAges :
                      young <= 90 =>
                         RGe(AlphaGap(cfo, ceo, young), AlphaGap(cfo, ceo, daysOld))
                /\ \A older \in DecayAges :
                      older >= daysOld =>
                         RLe(AlphaGap(cfo, ceo, older), AlphaGap(cfo, ceo, daysOld))

\* C29: at the end of every simulated day cash plus the cost basis of the
\* open positions equals the initial capital plus the sum of returnDollars
\* of the trades recorded so far; and when runBacktest returns with no
\* position open, finalCapital - initialCapital is that sum.
C29_CapitalConserved ==
    /\ pc = "day" =>
         capital + CostBasis(openPositions)
             = config.initialCapital + RealizedReturn
    /\ (pc = "done" /\ Len(openPositions) = 0) =>
         result[1].finalCapital - config.initialCapital = RealizedReturn

\* C27: two calls of runBacktest on one Backtester whose steps interleave
\* do not share positions: at every step each call's locals (position table,
\* cash, trade list, drawdown, loop position) and, once it has returned, its
\* result are those of the same call made alone with the same signals and
\* prices.
C27_RunsDoNotInterfere == \A r \in DOMAIN runs : runs[r] = solo[r]

\* Both calls have returned with trades of their own, different results, and
\* both asked for a price range the other asked for too.
C27_Witness ==
    /\ Len(runs) = 2
    /\ \A r \in DOMAIN runs :
         runs[r].pc = "done" /\ Len(runs[r].result[1].trades) > 0
    /\ runs[1].result # runs[2].result
    /\ DOMAIN soloCache[1] \cap DOMAIN soloCache[2] # {}

\* Both calls await the answer to a request for the same range at once.
C27_WitnessRace ==
    /\ Len(runs) = 2
    /\ fetching = <<TRUE, TRUE>>
    /\ requestKey(requestRange(runs[1])) = requestKey(requestRange(runs[2]))

====
